---- MODULE Spec2Model ----
(***************************************************************************)
(* A model of cnpy++ (NPY / NPZ codec): the header codec, npy_save and     *)
(* npy_load on one file, the pull-based NPZ source callback and the       *)
(* structured-record layout table.                                        *)
(*                                                                         *)
(* Bytes are integers.  Header text is kept byte for byte (ASCII codes).   *)
(* Payload bytes are symbolic: a file is a sequence of chunks, a chunk     *)
(* being literal bytes, a range of the source data of one npy_save call,   *)
(* or zero bytes.  Two payloads made of the same chunks are equal for all  *)
(* source data; two payloads made of different chunks differ for some.     *)
(***************************************************************************)
EXTENDS Integers, Sequences, FiniteSets, TLC

VARIABLES
    \* --- one NPY file on disk, npy_save / npy_load (Spec) ---
    file,      \* NoFile, or the file's bytes as a sequence of chunks
    hist,      \* the successful writes since the last fresh write, in call order
    last,      \* the last call: its arguments and whether it threw
    arr,       \* the NpyArray returned by the last npy_load, or NoArray
    \* --- header codec on byte strings (SpecHeader) ---
    hpc,       \* "in", "made", "parsed"
    hin,       \* the arguments of create_npy_header
    hbytes,    \* the header bytes under test
    hforged,   \* what a foreign writer changed in hbytes
    hres,      \* the result of the parse, and which entry point produced it
    \* --- NPZ streaming source callback (SpecStream) ---
    sp,        \* detail::additional_parameters
    sit,       \* the lambda's captures: elements_written_total (= iterator position)
    sout,      \* all bytes handed to the archive sink so far
    sret,      \* the value returned by the last ZIP_SOURCE_READ, -1 before the first
    scfg,      \* element size and nels of the npz_save call
    \* --- record layout, fill() and tuple_iterator (SpecLayout) ---
    lpc,       \* "in", "filled", "read"
    lsizes,    \* tuple_info<T>::element_sizes of the record type
    lbuf,      \* the packed buffer fill() wrote
    lread,     \* what tuple_iterator dereferenced, record by record
    \* --- NPZ archives (SpecArchive, SpecLabels) ---
    zip,       \* the archive on disk: whether it exists, and its entries in order
    zsaved,    \* the npz_save calls that returned, in call order
    zres,      \* the last call on the archive and what it returned or threw
    zopen,     \* the libzip handles opened and not closed by the calls so far
    \* --- element counts of wide shapes (SpecCount) ---
    cfile,     \* NoCount, or the shape in the header written and the number of
               \* elements written after it
    cload      \* NoCount, or num_vals of the last load of that file

fvars == <<file, hist, last, arr>>
hvars == <<hpc, hin, hbytes, hforged, hres>>
svars == <<sp, sit, sout, sret, scfg>>
lvars == <<lpc, lsizes, lbuf, lread>>
zvars == <<zip, zsaved, zres, zopen>>
cvars == <<cfile, cload>>
vars == <<fvars, hvars, svars, lvars, zvars, cvars>>

(***************************************************************************)
(* Bounds of the model.                                                    *)
(***************************************************************************)
MaxDim == 1
MaxRank == 2
MaxFields == 2
MaxWrites == 3
MaxPull == 5
MaxNels == 3
MaxWidths == 3
MaxTuples == 2
MaxOver == 2
MaxWideRank == 2
MaxSaves == 2
BufSize == 8192
BigDim == 10000000

(***************************************************************************)
(* Characters and literals of the header text.                             *)
(***************************************************************************)
Ch == [quote |-> 39, lparen |-> 40, rparen |-> 41, comma |-> 44, space |-> 32,
       lt |-> 60, gt |-> 62, bar |-> 124, lbracket |-> 91, rbracket |-> 93,
       lbrace |-> 123, rbrace |-> 125, nl |-> 10, underscore |-> 95,
       i |-> 105, u |-> 117, f |-> 102, b |-> 98, c |-> 99]

\* "\x93NUMPY"
npy_magic_string == <<147, 78, 85, 77, 80, 89>>

Lit ==
  [ descr_list   |-> <<123, 39, 100, 101, 115, 99, 114, 39, 58, 32, 91>>,   \* {'descr': [
    descr_plain  |-> <<123, 39, 100, 101, 115, 99, 114, 39, 58, 32, 39>>,   \* {'descr': '
    tuple_open   |-> <<40, 39>>,                                            \* ('
    tuple_mid    |-> <<39, 44, 32, 39>>,                                    \* ', '
    tuple_close  |-> <<39, 41>>,                                            \* ')
    sep          |-> <<44, 32>>,                                            \* ,
    list_fortran |-> <<93, 44, 32, 39, 102, 111, 114, 116, 114, 97, 110, 95,
                       111, 114, 100, 101, 114, 39, 58, 32>>,               \* ], 'fortran_order':
    plain_fortran |-> <<39, 44, 32, 39, 102, 111, 114, 116, 114, 97, 110, 95,
                        111, 114, 100, 101, 114, 39, 58, 32>>,              \* ', 'fortran_order':
    false        |-> <<70, 97, 108, 115, 101>>,                             \* False
    true         |-> <<84, 114, 117, 101>>,                                 \* True
    shape_open   |-> <<44, 32, 39, 115, 104, 97, 112, 101, 39, 58, 32, 40>>, \* , 'shape': (
    dict_close   |-> <<41, 44, 32, 125>>,                                   \* ), }
    fortran_key  |-> <<39, 102, 111, 114, 116, 114, 97, 110, 95, 111, 114,
                       100, 101, 114, 39, 58, 32>>,                         \* 'fortran_order':
    shape_key    |-> <<39, 115, 104, 97, 112, 101, 39, 58, 32, 40>>,        \* 'shape': (
    descr_key    |-> <<39, 100, 101, 115, 99, 114, 39, 58, 32>>,            \* 'descr':
    int_max      |-> <<50, 49, 52, 55, 52, 56, 51, 54, 52, 55>> ]           \* 2147483647

\* The host is little-endian (x86-64): the first byte of int32_t 1 is 1.
BigEndianTest == Ch.lt

(***************************************************************************)
(* std::to_string of a size_t.                                             *)
(***************************************************************************)
RECURSIVE to_string(_)
to_string(n) ==
  IF n < 10 THEN <<48 + n>> ELSE to_string(n \div 10) \o <<48 + (n % 10)>>

\* operator+=(std::vector<char>&, uint16_t): two bytes, little endian.
LittleEndian16(n) == <<(n % 65536) % 256, (n % 65536) \div 256>>

RECURSIVE ShapeTail(_, _)
ShapeTail(shape, k) ==
  IF k > Len(shape) THEN <<>>
  ELSE Lit.sep \o to_string(shape[k]) \o ShapeTail(shape, k + 1)

\* 'fortran_order': ..., 'shape': (...), }   -- common to both overloads
DictTail(shape, memory_order) ==
  (IF memory_order = "C" THEN Lit.false ELSE Lit.true)
  \o Lit.shape_open
  \o to_string(shape[1])
  \o ShapeTail(shape, 2)
  \o (IF Len(shape) = 1 THEN <<Ch.comma>> ELSE <<>>)
  \o Lit.dict_close

\* The mutant pads to the next multiple of 16 only when there is a remainder.
PadDictNoSlack(dict) ==
  LET remainder == (16 - ((10 + Len(dict)) % 16)) % 16
      padded == dict \o [k \in 1..remainder |-> Ch.space]
  IN  [padded EXCEPT ![Len(padded)] = Ch.nl]

\* pad with spaces so that preamble+dict is modulo 16 bytes; dict ends with \n
PadDict(dict) ==
  LET remainder == 16 - ((10 + Len(dict)) % 16)
      padded == dict \o [k \in 1..remainder |-> Ch.space]
  IN  [padded EXCEPT ![Len(padded)] = Ch.nl]

Preamble(dict) ==
  npy_magic_string \o <<1, 0>> \o LittleEndian16(Len(dict))

\* create_npy_header(shape, dtype, wordsize, memory_order)
create_npy_header(shape, dtype, wordsize, memory_order) ==
  LET dict == PadDict(Lit.descr_plain
                      \o <<BigEndianTest, dtype>> \o to_string(wordsize)
                      \o Lit.plain_fortran
                      \o DictTail(shape, memory_order))
  IN  Preamble(dict) \o dict

RECURSIVE DescrTuples(_, _, _, _)
DescrTuples(labels, dtypes, sizes, k) ==
  IF k > Len(dtypes) THEN <<>>
  ELSE Lit.tuple_open \o labels[k] \o Lit.tuple_mid
       \o <<BigEndianTest, dtypes[k]>> \o to_string(sizes[k])
       \o Lit.tuple_close
       \o (IF k # Len(dtypes) THEN Lit.sep ELSE <<>>)
       \o DescrTuples(labels, dtypes, sizes, k + 1)

\* create_npy_header(shape, labels, dtypes, sizes, memory_order) throws when
\* the three vectors differ in size.
create_npy_header_throws(labels, dtypes, sizes) ==
  Len(labels) # Len(dtypes) \/ Len(dtypes) # Len(sizes) \/ Len(sizes) # Len(labels)

\* create_npy_header(shape, labels, dtypes, sizes, memory_order)
create_npy_header_struct(shape, labels, dtypes, sizes, memory_order) ==
  LET dict == PadDict(Lit.descr_list
                      \o DescrTuples(labels, dtypes, sizes, 1)
                      \o (IF Len(dtypes) = 1 THEN <<Ch.comma>> ELSE <<>>)
                      \o Lit.list_fortran
                      \o DictTail(shape, memory_order))
  IN  Preamble(dict) \o dict

(***************************************************************************)
(* Parsing: the searches and regular expressions of parse_npy_dict.        *)
(***************************************************************************)
SetMin(S) == CHOOSE x \in S : \A y \in S : x <= y

\* whether `needle` occurs in `s` at position p
IsAt(s, p, needle) ==
  /\ p >= 1
  /\ p + Len(needle) - 1 <= Len(s)
  /\ \A k \in 1..Len(needle) : s[p + k - 1] = needle[k]

\* std::string_view::find(needle, from): the first position >= from, 0 for npos
Find(s, needle, from) ==
  LET hits == {p \in from..Len(s) : IsAt(s, p, needle)}
  IN  IF hits = {} THEN 0 ELSE SetMin(hits)

IsDigit(ch) == ch >= 48 /\ ch <= 57
\* \w of ECMAScript: [A-Za-z0-9_]
IsWord(ch) ==
  IsDigit(ch) \/ (ch >= 65 /\ ch <= 90) \/ (ch >= 97 /\ ch <= 122) \/ ch = Ch.underscore
\* [a-zA-z]: the second range runs from 'A' to lower-case 'z'
IsTypeChar(ch) == (ch >= 97 /\ ch <= 122) \/ (ch >= 65 /\ ch <= 122)
IsEndian(ch) == ch \in {Ch.lt, Ch.gt, Ch.bar}

\* the first position >= p, and <= e + 1, that does not satisfy the class
RECURSIVE DigitsEnd(_, _, _)
DigitsEnd(s, p, e) ==
  IF p <= e /\ IsDigit(s[p]) THEN DigitsEnd(s, p + 1, e) ELSE p

RECURSIVE WordEnd(_, _, _)
WordEnd(s, p, e) ==
  IF p <= e /\ IsWord(s[p]) THEN WordEnd(s, p + 1, e) ELSE p

\* std::regex_search with "'fortran_order': (True|False)": the leftmost match
FortranOrderMatch(s) ==
  LET hits == {p \in 1..Len(s) :
                 /\ IsAt(s, p, Lit.fortran_key)
                 /\ \/ IsAt(s, p + Len(Lit.fortran_key), Lit.true)
                    \/ IsAt(s, p + Len(Lit.fortran_key), Lit.false)}
  IN  IF hits = {} THEN 0 ELSE SetMin(hits)

\* all matches of \d+ in s[from..to], left to right, each as its digit string
RECURSIVE DigitRuns(_, _, _)
DigitRuns(s, from, to) ==
  IF from > to THEN <<>>
  ELSE IF IsDigit(s[from])
       THEN LET q == DigitsEnd(s, from, to)
            IN  <<SubSeq(s, from, q - 1)>> \o DigitRuns(s, q, to)
       ELSE DigitRuns(s, from + 1, to)

RECURSIVE StripZeros(_)
StripZeros(d) ==
  IF Len(d) > 1 /\ d[1] = 48 THEN StripZeros(Tail(d)) ELSE d

RECURSIVE DigitsGreater(_, _)
DigitsGreater(a, b) ==   \* same length, compared as numbers
  IF a = <<>> THEN FALSE
  ELSE IF a[1] # b[1] THEN a[1] > b[1]
  ELSE DigitsGreater(Tail(a), Tail(b))

\* std::stoi throws std::out_of_range above INT_MAX
stoi_throws(d) ==
  LET z == StripZeros(d)
  IN  Len(z) > Len(Lit.int_max)
      \/ (Len(z) = Len(Lit.int_max) /\ DigitsGreater(z, Lit.int_max))

RECURSIVE stoi(_)
stoi(d) ==
  IF d = <<>> THEN 0 ELSE 10 * stoi(SubSeq(d, 1, Len(d) - 1)) + (d[Len(d)] - 48)

\* The regex "'([<>\|])([a-zA-z])(\d+)'" matched at position p of s; a match
\* is [at, end (the position after it), endian, dtype, digits], no match is
\* [at |-> 0].
NoMatch == [at |-> 0]
SimpleDescrAt(s, p) ==
  IF /\ p + 4 <= Len(s)
     /\ s[p] = Ch.quote
     /\ IsEndian(s[p + 1])
     /\ IsTypeChar(s[p + 2])
     /\ IsDigit(s[p + 3])
  THEN LET q == DigitsEnd(s, p + 3, Len(s))
       IN  IF q <= Len(s) /\ s[q] = Ch.quote
           THEN [at |-> p, end |-> q + 1, label |-> <<>>, endian |-> s[p + 1],
                 dtype |-> s[p + 2], digits |-> SubSeq(s, p + 3, q - 1)]
           ELSE NoMatch
  ELSE NoMatch

\* std::regex_search from position `from` to the end of the dictionary
SimpleDescrSearch(s, from) ==
  LET hits == {p \in from..Len(s) : SimpleDescrAt(s, p).at # 0}
  IN  IF hits = {} THEN NoMatch ELSE SimpleDescrAt(s, SetMin(hits))

\* dtype_tuple_regex, "\('(\w+)', '([<>|])([a-zA-z])(\d+)'\)", matched at
\* position p within s[..e]
dtype_tuple_regex(s, p, e) ==
  LET w == WordEnd(s, p + 2, e)
  IN  IF /\ p + 1 <= e
         /\ s[p] = Ch.lparen
         /\ s[p + 1] = Ch.quote
         /\ w > p + 2
         /\ w + 6 <= e
         /\ IsAt(s, w, Lit.tuple_mid)
         /\ IsEndian(s[w + 4])
         /\ IsTypeChar(s[w + 5])
         /\ IsDigit(s[w + 6])
      THEN LET q == DigitsEnd(s, w + 6, e)
           IN  IF q + 1 <= e /\ s[q] = Ch.quote /\ s[q + 1] = Ch.rparen
               THEN [at |-> p, end |-> q + 2, label |-> SubSeq(s, p + 2, w - 1),
                     endian |-> s[w + 4], dtype |-> s[w + 5],
                     digits |-> SubSeq(s, w + 6, q - 1)]
               ELSE NoMatch
      ELSE NoMatch

\* std::cregex_iterator over s[from..e]: the matches, left to right, each
\* search starting where the previous match ended
RECURSIVE TupleMatches(_, _, _)
TupleMatches(s, from, e) ==
  LET hits == {p \in from..e : dtype_tuple_regex(s, p, e).at # 0}
  IN  IF hits = {} THEN <<>>
      ELSE LET m == dtype_tuple_regex(s, SetMin(hits), e)
           IN  <<m>> \o TupleMatches(s, m.end, e)

(***************************************************************************)
(* parse_npy_dict and the two parse_npy_header entry points.  The result   *)
(* is the out-parameters plus `throw`: "" when the call returned, else the *)
(* exception's message.                                                    *)
(***************************************************************************)
Throw(msg) ==
  [throw |-> msg, word_sizes |-> <<>>, data_types |-> <<>>, labels |-> <<>>,
   shape |-> <<>>, memory_order |-> "C"]

Parsed(word_sizes, data_types, labels, shape, memory_order) ==
  [throw |-> "", word_sizes |-> word_sizes, data_types |-> data_types,
   labels |-> labels, shape |-> shape, memory_order |-> memory_order]

\* the 'descr' part of parse_npy_dict, once shape and memory order are read
ParseDescr(dict, shape, memory_order) ==
  LET pos_start_desc == Find(dict, Lit.descr_key, 1)
  IN
  IF pos_start_desc = 0 THEN Throw("invalid header: missing 'descr'")
  ELSE
  LET c == dict[pos_start_desc + Len(Lit.descr_key)]
  IN
  IF c = Ch.quote THEN
    \* simple type
    LET matches == SimpleDescrSearch(dict, pos_start_desc)
    IN  IF matches.at = 0
        THEN Throw("parse_npy_header: could not parse data type descriptor")
        ELSE IF matches.endian = Ch.gt
        THEN Throw("parse_npy_header: data stored in big-endian format (not supported)")
        ELSE IF stoi_throws(matches.digits) THEN Throw("stoi")
        ELSE Parsed(<<stoi(matches.digits)>>, <<matches.dtype>>, <<>>,
                    shape, memory_order)
  ELSE IF c = Ch.lbracket THEN
    \* structured type / tuple
    LET pos_end_list ==
          Find(dict, <<Ch.rbracket>>, pos_start_desc + Len(Lit.descr_key))
    IN  IF pos_end_list = 0
        THEN Throw("invalid header: malformed list in 'descr'")
        ELSE
        LET tuples == TupleMatches(dict, pos_start_desc + Len(Lit.descr_key),
                                   pos_end_list - 1)
        IN  IF \E k \in 1..Len(tuples) : tuples[k].endian = Ch.gt
            THEN Throw("parse_npy_header: data stored in big-endian format (not supported)")
            ELSE IF \E k \in 1..Len(tuples) : stoi_throws(tuples[k].digits)
            THEN Throw("stoi")
            ELSE Parsed([k \in 1..Len(tuples) |-> stoi(tuples[k].digits)],
                        [k \in 1..Len(tuples) |-> tuples[k].dtype],
                        [k \in 1..Len(tuples) |-> tuples[k].label],
                        shape, memory_order)
  ELSE Throw("invalid header: malformed 'descr'")

parse_npy_dict(buffer) ==
  IF buffer[Len(buffer)] # Ch.nl
  THEN Throw("invalid header: missing terminating newline")
  ELSE IF buffer[1] # Ch.lbrace
  THEN Throw("invalid header: malformed dictionary")
  ELSE
  LET fo == FortranOrderMatch(buffer)
  IN
  IF fo = 0 THEN Throw("invalid header: missing 'fortran_order'")
  ELSE
  LET memory_order ==
        IF IsAt(buffer, fo + Len(Lit.fortran_key), Lit.true) THEN "Fortran" ELSE "C"
      pos_start_shape == Find(buffer, Lit.shape_key, 1)
  IN
  IF pos_start_shape = 0 THEN Throw("invalid header: missing 'shape'")
  ELSE
  LET pos_end_shape == Find(buffer, <<Ch.rparen>>, pos_start_shape)
  IN
  IF pos_end_shape = 0 THEN Throw("invalid header: malformed dictionary")
  ELSE
  LET dims == DigitRuns(buffer, pos_start_shape, pos_end_shape - 1)
  IN
  IF \E k \in 1..Len(dims) : stoi_throws(dims[k]) THEN Throw("stoi")
  ELSE ParseDescr(buffer, [k \in 1..Len(dims) |-> stoi(dims[k])], memory_order)

\* the uint16 at bytes 8..9, little endian
HeaderLen(bytes) == bytes[9] + 256 * bytes[10]

\* parse_npy_header(std::istream&, ...): `bytes` is what the stream holds
parse_npy_header(bytes) ==
  IF ~IsAt(bytes, 1, npy_magic_string)
  THEN Throw("parse_npy_header: NPY magic string not found")
  ELSE IF bytes[7] # 1 \/ bytes[8] # 0
  THEN Throw("parse_npy_header: NPY format version not supported")
  ELSE parse_npy_dict(SubSeq(bytes, 11, 10 + HeaderLen(bytes)))

\* parse_npy_header(char const* buffer, ...): the in-memory entry point
parse_npy_header_buffer(buffer) ==
  IF ~(buffer[7] = 1 /\ buffer[8] = 0)
  THEN Throw("parse_npy_header: version not supported")
  ELSE parse_npy_dict(SubSeq(buffer, 11, 10 + HeaderLen(buffer)))

(***************************************************************************)
(* Inputs.                                                                 *)
(***************************************************************************)
\* map_type and sizeof of the element types used: uint8_t, int32_t, and for
\* record fields also int16_t
map_type == [uint8_t |-> Ch.u, int8_t |-> Ch.i, int16_t |-> Ch.i, int32_t |-> Ch.i]
sizeof == [uint8_t |-> 1, int8_t |-> 1, int16_t |-> 2, int32_t |-> 4]
ScalarTypes == {"uint8_t", "int8_t", "int16_t"}
FieldTypes == {"int32_t", "uint8_t", "int16_t"}

MemoryOrder == {"C", "Fortran"}

SeqsUpTo(S, n) == UNION {[1..k -> S] : k \in 1..n}

\* every shape of rank 1..MaxRank over 0..MaxDim, and shapes whose growth
\* dimension is about to gain a decimal digit
Shapes ==
  SeqsUpTo(0..MaxDim, MaxRank)
  \cup {<<9, 1, BigDim>>, <<1, 1, BigDim>>}

(***************************************************************************)
(* SpecHeader: create_npy_header, a foreign writer, and the two parse      *)
(* entry points, on byte strings.                                          *)
(***************************************************************************)
HShapes == SeqsUpTo(0..MaxDim, MaxRank) \cup {<<9>>, <<10, 1, BigDim>>}

HPlainInputs ==
  {[kind |-> "plain", shape |-> sh, memory_order |-> mo, labels |-> <<>>,
    types |-> <<t>>] : sh \in HShapes, mo \in MemoryOrder, t \in ScalarTypes}

\* a field of a record: its label and its element type
HFields ==
  { [label |-> <<97>>, type |-> "int32_t"],       \* "a"
    [label |-> <<98, 49>>, type |-> "uint8_t"],   \* "b1"
    [label |-> <<97, 32, 98>>, type |-> "int16_t"],  \* "a b"
    [label |-> <<95, 99>>, type |-> "int32_t"] }  \* "_c"

HStructInputs ==
  {[kind |-> "struct", shape |-> sh, memory_order |-> mo,
    labels |-> [k \in 1..Len(fs) |-> fs[k].label],
    types |-> [k \in 1..Len(fs) |-> fs[k].type]] :
      sh \in HShapes, mo \in MemoryOrder, fs \in SeqsUpTo(HFields, MaxFields)}

HInputs == HPlainInputs \cup HStructInputs

DtypesOf(types) == [k \in 1..Len(types) |-> map_type[types[k]]]
SizesOf(types) == [k \in 1..Len(types) |-> sizeof[types[k]]]

HeaderOf(x) ==
  IF x.kind = "plain"
  THEN create_npy_header(x.shape, map_type[x.types[1]], sizeof[x.types[1]],
                         x.memory_order)
  ELSE create_npy_header_struct(x.shape, x.labels, DtypesOf(x.types),
                                SizesOf(x.types), x.memory_order)

\* the length of the text of tuple k of a 'descr' list, separator included
TupleTextLen(x, k) ==
  Len(Lit.tuple_open) + Len(x.labels[k]) + Len(Lit.tuple_mid) + 2
  + Len(to_string(sizeof[x.types[k]])) + Len(Lit.tuple_close)
  + (IF k # Len(x.types) THEN Len(Lit.sep) ELSE 0)

RECURSIVE TuplesTextLen(_, _)
TuplesTextLen(x, k) == IF k = 0 THEN 0 ELSE TupleTextLen(x, k) + TuplesTextLen(x, k - 1)

\* where the endian marker of field k stands in the header of x
EndianPos(x, k) ==
  IF x.kind = "plain" THEN 10 + Len(Lit.descr_plain) + 1
  ELSE 10 + Len(Lit.descr_list) + TuplesTextLen(x, k - 1)
       + Len(Lit.tuple_open) + Len(x.labels[k]) + Len(Lit.tuple_mid) + 1

NotForged == [what |-> "none", k |-> 0, to |-> 0]
NoResult == [via |-> "none", r |-> Throw("")]

HInit ==
  /\ hpc = "in"
  /\ hin \in HInputs
  /\ hbytes = <<>>
  /\ hforged = NotForged
  /\ hres = NoResult

\* create_npy_header writes the header
HCreate ==
  /\ hpc = "in"
  /\ hbytes' = HeaderOf(hin)
  /\ hpc' = "made"
  /\ UNCHANGED <<hin, hforged, hres>>
  /\ UNCHANGED <<fvars, svars, lvars, zvars, cvars>>

\* a file from another writer: one field's byte order marker is '>' or '|'
HForgeEndian ==
  /\ hpc = "made"
  /\ hforged = NotForged
  /\ \E k \in 1..Len(hin.types), e \in {Ch.gt, Ch.bar} :
       /\ hbytes' = [hbytes EXCEPT ![EndianPos(hin, k)] = e]
       /\ hforged' = [what |-> "endian", k |-> k, to |-> e]
  /\ UNCHANGED <<hpc, hin, hres>>
  /\ UNCHANGED <<fvars, svars, lvars, zvars, cvars>>

\* a file that does not start with the magic string
HForgeMagic ==
  /\ hpc = "made"
  /\ hforged = NotForged
  /\ \E k \in {1, Len(npy_magic_string)} :
       /\ hbytes' = [hbytes EXCEPT ![k] = 0]
       /\ hforged' = [what |-> "magic", k |-> k, to |-> 0]
  /\ UNCHANGED <<hpc, hin, hres>>
  /\ UNCHANGED <<fvars, svars, lvars, zvars, cvars>>

\* a file of another format version: 2.0, 3.0 or 1.1
HForgeVersion ==
  /\ hpc = "made"
  /\ hforged = NotForged
  /\ \E v \in {<<2, 0>>, <<3, 0>>, <<1, 1>>} :
       /\ hbytes' = [hbytes EXCEPT ![7] = v[1], ![8] = v[2]]
       /\ hforged' = [what |-> "version", k |-> v[1], to |-> v[2]]
  /\ UNCHANGED <<hpc, hin, hres>>
  /\ UNCHANGED <<fvars, svars, lvars, zvars, cvars>>

\* the header another writer makes for a 0-dimensional array: 'shape': ()
ScalarHeader(dtype, wordsize, memory_order) ==
  LET dict == PadDict(Lit.descr_plain
                      \o <<BigEndianTest, dtype>> \o to_string(wordsize)
                      \o Lit.plain_fortran
                      \o (IF memory_order = "C" THEN Lit.false ELSE Lit.true)
                      \o Lit.shape_open
                      \o Lit.dict_close)
  IN  Preamble(dict) \o dict

\* a file from another writer that holds a 0-dimensional array
HForgeScalar ==
  /\ hpc = "made"
  /\ hforged = NotForged
  /\ hin.kind = "plain"
  /\ hbytes' = ScalarHeader(map_type[hin.types[1]], sizeof[hin.types[1]],
                            hin.memory_order)
  /\ hforged' = [what |-> "scalar", k |-> 0, to |-> 0]
  /\ UNCHANGED <<hpc, hin, hres>>
  /\ UNCHANGED <<fvars, svars, lvars, zvars, cvars>>

HParseStream ==
  /\ hpc = "made"
  /\ hres' = [via |-> "stream", r |-> parse_npy_header(hbytes)]
  /\ hpc' = "parsed"
  /\ UNCHANGED <<hin, hbytes, hforged>>
  /\ UNCHANGED <<fvars, svars, lvars, zvars, cvars>>

HParseBuffer ==
  /\ hpc = "made"
  /\ hres' = [via |-> "buffer", r |-> parse_npy_header_buffer(hbytes)]
  /\ hpc' = "parsed"
  /\ UNCHANGED <<hin, hbytes, hforged>>
  /\ UNCHANGED <<fvars, svars, lvars, zvars, cvars>>

HNext ==
  \/ HCreate
  \/ HForgeEndian
  \/ HForgeMagic
  \/ HForgeVersion
  \/ HForgeScalar
  \/ HParseStream
  \/ HParseBuffer

(***************************************************************************)
(* Files.  A file is a sequence of chunks; chunk k of kind "src" stands    *)
(* for bytes off .. off+len-1 of the source data of the w-th write.        *)
(***************************************************************************)
LitChunk(b) == [k |-> "lit", b |-> b, w |-> 0, off |-> 0, len |-> Len(b)]
SrcChunk(w, off, len) == [k |-> "src", b |-> <<>>, w |-> w, off |-> off, len |-> len]
\* bytes of a value-initialised buffer that no read has filled
ZeroChunk(len) == [k |-> "zero", b |-> <<>>, w |-> 0, off |-> 0, len |-> len]
\* bytes of a mapping that lie beyond the end of the file
BeyondEofChunk(len) == [k |-> "eof", b |-> <<>>, w |-> 0, off |-> 0, len |-> len]

ChunkDrop(c, n) ==
  IF c.k = "lit" THEN LitChunk(SubSeq(c.b, n + 1, c.len))
  ELSE IF c.k = "src" THEN SrcChunk(c.w, c.off + n, c.len - n)
  ELSE [c EXCEPT !.len = c.len - n]

ChunkTake(c, n) ==
  IF c.k = "lit" THEN LitChunk(SubSeq(c.b, 1, n)) ELSE [c EXCEPT !.len = n]

Mergeable(c, d) ==
  /\ c.k = d.k
  /\ c.k = "src" => (c.w = d.w /\ c.off + c.len = d.off)

Merge(c, d) ==
  IF c.k = "lit" THEN LitChunk(c.b \o d.b) ELSE [c EXCEPT !.len = c.len + d.len]

\* the canonical form: no empty chunk, no two adjacent chunks that are one range
RECURSIVE Norm(_)
Norm(f) ==
  IF f = <<>> THEN <<>>
  ELSE IF f[1].len = 0 THEN Norm(Tail(f))
  ELSE LET r == Norm(Tail(f))
       IN  IF r # <<>> /\ Mergeable(f[1], r[1])
           THEN <<Merge(f[1], r[1])>> \o Tail(r)
           ELSE <<f[1]>> \o r

RECURSIVE FLen(_)
FLen(f) == IF f = <<>> THEN 0 ELSE f[1].len + FLen(Tail(f))

RECURSIVE FDrop(_, _)
FDrop(f, n) ==
  IF n = 0 \/ f = <<>> THEN f
  ELSE IF n >= f[1].len THEN FDrop(Tail(f), n - f[1].len)
  ELSE <<ChunkDrop(f[1], n)>> \o Tail(f)

RECURSIVE FTake(_, _)
FTake(f, n) ==
  IF n = 0 \/ f = <<>> THEN <<>>
  ELSE IF n >= f[1].len THEN <<f[1]>> \o FTake(Tail(f), n - f[1].len)
  ELSE <<ChunkTake(f[1], n)>>

NoFile == [exists |-> FALSE, data |-> <<>>]
FileOf(chunks) == [exists |-> TRUE, data |-> Norm(chunks)]

\* the literal bytes the file starts with: what a stream opened on it reads first
FileHead(f) ==
  IF f.data # <<>> /\ f.data[1].k = "lit" THEN f.data[1].b ELSE <<>>

\* seekp(0, beg); write(bytes); seekp(0, end); write(chunk) on an open fstream
WriteHeaderAndAppend(chunks, header, chunk) ==
  FileOf(<<LitChunk(header)>> \o FDrop(chunks, Len(header)) \o <<chunk>>)

RECURSIVE Product(_)
Product(shape) ==
  IF shape = <<>> THEN 1 ELSE shape[1] * Product(Tail(shape))

RECURSIVE Sum(_)
Sum(sizes) == IF sizes = <<>> THEN 0 ELSE sizes[1] + Sum(Tail(sizes))

(***************************************************************************)
(* npy_load.                                                               *)
(***************************************************************************)
\* boost::iostreams::mapped_file::alignment(): the page size of the host
alignment == 4096

NoArray ==
  [valid |-> FALSE, shape |-> <<>>, word_sizes |-> <<>>, labels |-> <<>>,
   memory_order |-> "C", data |-> <<>>]

NpyArray(shape, word_sizes, labels, memory_order, data) ==
  [valid |-> TRUE, shape |-> shape, word_sizes |-> word_sizes, labels |-> labels,
   memory_order |-> memory_order, data |-> data]

\* InMemoryBuffer(num_bytes) filled by fs.read from position pos: a short read
\* leaves the rest of the value-initialised buffer as it was
InMemoryRead(chunks, pos, num_bytes) ==
  LET got == FTake(FDrop(chunks, pos), num_bytes)
  IN  Norm(got \o <<ZeroChunk(num_bytes - FLen(got))>>)

\* the mapped_file MemoryMappedBuffer(path, offset_, length) opens: its sub-offset
\* `offset`, the length of the mapping and the file offset it starts at
MappedFile(offset_, length) ==
  LET offset == offset_ % alignment
  IN  [offset |-> offset,
       length |-> offset + length,
       file_offset |-> (offset_ \div alignment) * alignment]

\* MemoryMappedBuffer(path, offset_, length): the bytes from data() on, which is
\* the base of the mapping plus the sub-offset
MemoryMappedBuffer(chunks, offset_, length) ==
  LET m == MappedFile(offset_, length)
      got == FTake(FDrop(chunks, m.file_offset), m.length)
      mapping == got \o <<BeyondEofChunk(m.length - FLen(got))>>
  IN  Norm(FDrop(mapping, m.offset))

\* the part of npy_load after the header h has been parsed: the
\* payload of num_bytes bytes is read from where the header ended
LoadPayload(f, h, tellg, memory_mapped) ==
  LET num_bytes == Sum(h.word_sizes) * Product(h.shape)
  IN  IF h.throw # "" THEN [threw |-> h.throw, arr |-> NoArray]
      ELSE [threw |-> "",
            arr |-> NpyArray(h.shape, h.word_sizes, h.labels, h.memory_order,
                             IF ~memory_mapped
                             THEN InMemoryRead(f.data, tellg, num_bytes)
                             ELSE MemoryMappedBuffer(f.data, tellg, num_bytes))]

\* the mutant reads the payload from the start of the dictionary text
NpyLoadFromPreamble(f, memory_mapped) ==
  IF ~f.exists THEN [threw |-> "npy_load: Unable to open file", arr |-> NoArray]
  ELSE LoadPayload(f, parse_npy_header(FileHead(f)), 10, memory_mapped)

\* npy_load(fname, memory_mapped): [threw, arr]
npy_load(f, memory_mapped) ==
  IF ~f.exists THEN [threw |-> "npy_load: Unable to open file", arr |-> NoArray]
  ELSE LoadPayload(f, parse_npy_header(FileHead(f)), 10 + HeaderLen(FileHead(f)),
                   memory_mapped)

(***************************************************************************)
(* npy_save, both overloads.  The result is [threw, ub, file]: the         *)
(* exception's message ("" when the call returned), whether the call ran   *)
(* into undefined behaviour, and the file afterwards.  `w` names the       *)
(* source data of this call.                                               *)
(***************************************************************************)
Saved(f) == [threw |-> "", ub |-> FALSE, file |-> f]
SaveThrew(msg, f) == [threw |-> msg, ub |-> FALSE, file |-> f]

\* std::accumulate(shape.begin(), shape.end(), 1, std::multiplies<size_t>()):
\* the accumulator is an int; Shapes keeps every product below 2^31
nels_of(shape) == Product(shape)

\* std::equal(std::next(shape.begin()), shape.end(),
\*            std::next(true_data_shape.begin())), the ranks being equal
TailsEqual(shape, true_data_shape) ==
  \A k \in 2..Len(shape) : shape[k] = true_data_shape[k]

\* the growth of the existing shape by the new one
Grow(true_data_shape, shape, memory_order) ==
  IF memory_order = "C"
  THEN [true_data_shape EXCEPT ![1] = @ + shape[1]]
  ELSE [true_data_shape EXCEPT ![Len(true_data_shape)] = @ + shape[Len(shape)]]

\* what parse_npy_header(fs) returns on the file as it stands; it depends on
\* the file alone, so an action evaluates it once for all the calls it tries
ExistingHeader(f) == parse_npy_header(FileHead(f))

\* the mutant appends whenever mode is "a"
AppendingAlways(mode, f) == mode = "a"

\* mode == "a" && _exists(fname)
Appending(mode, f) == mode = "a" /\ f.exists

\* npy_save(fname, start, shape, mode, memory_order), value_type T;
\* h is ExistingHeader(f), w numbers the source data of the call
npy_save(f, h, w, T, shape, mode, memory_order) ==
  LET data == SrcChunk(w, 0, nels_of(shape) * sizeof[T])
  IN
  IF Appending(mode, f) THEN
    IF h.throw # "" THEN SaveThrew(h.throw, f)
    ELSE IF h.word_sizes = <<>> THEN SaveThrew("vector::at", f)
    ELSE IF sizeof[T] # h.word_sizes[1]
    THEN SaveThrew("npy_save(): appending failed: element size not matching", f)
    ELSE IF map_type[T] # h.data_types[1]
    THEN SaveThrew("npy_save(): appending failed: data type descriptor not matching", f)
    ELSE IF memory_order # h.memory_order
    THEN SaveThrew("libcnpy++ error in npy_save(): memory order does not match", f)
    ELSE IF Len(h.shape) # Len(shape)
    THEN SaveThrew("npy_save: ranks not matching", f)
    ELSE IF ~TailsEqual(shape, h.shape)
    THEN SaveThrew("libnpy error: npy_save attempting to append misshaped data", f)
    ELSE
    LET true_data_shape == Grow(h.shape, shape, memory_order)
        header == create_npy_header(true_data_shape, map_type[T], sizeof[T],
                                    memory_order)
    IN  Saved(WriteHeaderAndAppend(f.data, header, data))
  ELSE
    Saved(WriteHeaderAndAppend(<<>>,
            create_npy_header(shape, map_type[T], sizeof[T], memory_order), data))

\* std::equal(first1, last1, first2) over vectors of equal length
SeqEqual(a, b) == \A k \in 1..Len(a) : a[k] = b[k]

\* the mutant accepts any number of labels
LabelsNeverMismatch(labels, types) == FALSE

\* labels.size() != std::tuple_size_v<value_type>
LabelsMismatch(labels, types) == Len(labels) # Len(types)

\* npy_save(fname, labels, first, shape, mode, memory_order), value_type a
\* tuple of the element types `types`; h is ExistingHeader(f)
npy_save_struct(f, h, w, labels, types, shape, mode, memory_order) ==
  LET dtypes == DtypesOf(types)
      sizes == SizesOf(types)
      data == SrcChunk(w, 0, nels_of(shape) * Sum(sizes))
      \* the header is made from the call's shape, not from true_data_shape
      header == create_npy_header_struct(shape, labels, dtypes, sizes, memory_order)
  IN
  IF LabelsMismatch(labels, types)
  THEN SaveThrew("number of labels does not match tuple size", f)
  ELSE IF Appending(mode, f) THEN
    LET \* std::vector<size_t> word_sizes_exist, shape: a local, empty vector
        \* that hides the parameter in this block
        shape_local == <<>>
    IN
    IF h.throw # "" THEN SaveThrew(h.throw, f)
    ELSE IF Len(types) # Len(h.labels)
    THEN SaveThrew("libcnpy++ error in npy_save(): appending failed: sizes not matching", f)
    ELSE IF ~SeqEqual(h.data_types, dtypes)
    THEN SaveThrew("libcnpy++ error in npy_save(): appending failed: data type descriptors not matching", f)
    ELSE IF ~SeqEqual(h.word_sizes, sizes)
    THEN SaveThrew("libcnpy++ error in npy_save(): appending failed: element sizes not matching", f)
    ELSE IF memory_order # h.memory_order
    THEN SaveThrew("libcnpy++ error in npy_save(): memory order does not match", f)
    ELSE IF Len(h.shape) # Len(shape_local)
    THEN SaveThrew("libcnpy++ error: npy_save attempting to append misdimensioned data", f)
    ELSE
      \* true_data_shape and the local shape are both empty here:
      \* front() and back() of an empty vector
      [threw |-> "", ub |-> TRUE, file |-> WriteHeaderAndAppend(f.data, header, data)]
  ELSE IF create_npy_header_throws(labels, dtypes, sizes)
  THEN \* fs.open(fname, binary | out) has made the file empty by then
       SaveThrew("create_npy_header: sizes of argument vectors not equal",
                 FileOf(<<>>))
  ELSE
    Saved(WriteHeaderAndAppend(<<>>, header, data))

(***************************************************************************)
(* Spec: one file, written by npy_save and read by npy_load.               *)
(***************************************************************************)
\* the record types saved: the (int32, int8-sized, int16) record of the
\* examples with labels a, b, c, and a one-field record
Records ==
  { [labels |-> <<<<97>>, <<98>>, <<99>>>>,
     types |-> <<"int32_t", "uint8_t", "int16_t">>],
    [labels |-> <<<<97>>>>, types |-> <<"int32_t">>] }

NoCall == [op |-> "none", threw |-> "", mode |-> "", memory_mapped |-> FALSE]

SaveCall(kind, mode) == [op |-> kind, threw |-> "", mode |-> mode, memory_mapped |-> FALSE]

Written(kind, mode, labels, types, shape, memory_order, nbytes) ==
  [op |-> kind, mode |-> mode, types |-> types, labels |-> labels,
   shape |-> shape, memory_order |-> memory_order, nbytes |-> nbytes]

\* what a call running into undefined behaviour may leave behind
Outcomes(r, f) ==
  IF r.ub THEN {r, SaveThrew("undefined behaviour", f), Saved(NoFile)} ELSE {r}

\* the bookkeeping common to both overloads: hist lists the writes that reached the file
AfterSave(r, call, written) ==
  /\ file' = r.file
  /\ last' = [call EXCEPT !.threw = r.threw]
  /\ arr' = NoArray
  /\ hist' = IF r.threw # "" THEN hist
             ELSE IF call.mode = "a" /\ file.exists
             THEN Append(hist, written)
             ELSE <<written>>

FInit ==
  /\ file = NoFile
  /\ hist = <<>>
  /\ last = NoCall
  /\ arr = NoArray

FIdle == FInit

NpySave ==
  /\ \E h \in {ExistingHeader(file)} :
     \E T \in ScalarTypes, shape \in Shapes, mode \in {"w", "a"},
        memory_order \in MemoryOrder :
       LET appending == mode = "a" /\ file.exists
           r == npy_save(file, h, IF appending THEN Len(hist) + 1 ELSE 1,
                         T, shape, mode, memory_order)
       IN  /\ appending => Len(hist) < MaxWrites
           /\ AfterSave(r, SaveCall("npy_save", mode),
                        Written("npy_save", mode, <<>>, <<T>>, shape, memory_order,
                                nels_of(shape) * sizeof[T]))
  /\ UNCHANGED <<hvars, svars, lvars, zvars, cvars>>

NpySaveStruct ==
  /\ \E h \in {ExistingHeader(file)} :
     \E rec \in Records, shape \in Shapes, mode \in {"w", "a"},
        memory_order \in MemoryOrder :
       LET appending == mode = "a" /\ file.exists
           r == npy_save_struct(file, h, IF appending THEN Len(hist) + 1 ELSE 1,
                                rec.labels, rec.types, shape, mode, memory_order)
       IN  /\ appending => Len(hist) < MaxWrites
           /\ \E out \in Outcomes(r, file) :
                AfterSave(out, SaveCall("npy_save_struct", mode),
                          Written("npy_save_struct", mode, rec.labels, rec.types, shape,
                                  memory_order, nels_of(shape) * Sum(SizesOf(rec.types))))
  /\ UNCHANGED <<hvars, svars, lvars, zvars, cvars>>

NpyLoad ==
  /\ \E memory_mapped \in BOOLEAN :
       LET r == npy_load(file, memory_mapped)
       IN  /\ arr' = r.arr
           /\ last' = [NoCall EXCEPT !.op = "npy_load", !.threw = r.threw,
                                     !.memory_mapped = memory_mapped]
  /\ UNCHANGED <<file, hist>>
  /\ UNCHANGED <<hvars, svars, lvars, zvars, cvars>>

HIdle ==
  /\ hpc = "idle"
  /\ hin = [kind |-> "plain", shape |-> <<>>, memory_order |-> "C",
            labels |-> <<>>, types |-> <<>>]
  /\ hbytes = <<>>
  /\ hforged = NotForged
  /\ hres = NoResult

SIdle ==
  /\ sp = <<>>
  /\ sit = 0
  /\ sout = <<>>
  /\ sret = [st |-> "none", n |-> 0]
  /\ scfg = <<>>

LIdle ==
  /\ lpc = [at |-> "idle", count |-> 0, ptr_ |-> 0]
  /\ lsizes = <<>>
  /\ lbuf = <<>>
  /\ lread = <<>>

\* no count is on record
NoCount == [op |-> "none"]

CIdle ==
  /\ cfile = NoCount
  /\ cload = NoCount

\* no archive, no call on one
NoArchive == [exists |-> FALSE, entries |-> <<>>]
NoHandles == [archives |-> 0, files |-> 0]
NoZipCall ==
  [op |-> "none", threw |-> "", ub |-> FALSE, arrays |-> {}, fname |-> <<>>,
   mode |-> ""]

ZIdle ==
  /\ zip = NoArchive
  /\ zsaved = <<>>
  /\ zres = NoZipCall
  /\ zopen = NoHandles

Init == FInit /\ HIdle /\ SIdle /\ LIdle /\ ZIdle /\ CIdle

Next ==
  \/ NpySave
  \/ NpySaveStruct
  \/ NpyLoad

Spec == Init /\ [][Next]_vars

HeaderInit == HInit /\ FIdle /\ SIdle /\ LIdle /\ ZIdle /\ CIdle

SpecHeader == HeaderInit /\ [][HNext]_vars

(***************************************************************************)
(* SpecStream: the zip source of npz_save.  libzip pulls the entry's bytes *)
(* with ZIP_SOURCE_READ calls of lengths of its choosing until a call      *)
(* returns 0.  The source data are symbolic: byte j of the payload is      *)
(* 256 + j, which no header byte equals.                                   *)
(***************************************************************************)
\* a byte read from beyond the end of npyheader: any value
Unspecified == -1

Min(a, b) == IF a < b THEN a ELSE b

\* the bytes of element i (from 0) of the source range, as write_data lays them
ElementBytes(i, wordsize) == [j \in 1..wordsize |-> 256 + i * wordsize + (j - 1)]

RECURSIVE Elements(_, _, _)
Elements(from, n, wordsize) ==
  IF n = 0 THEN <<>>
  ELSE ElementBytes(from, wordsize) \o Elements(from + 1, n - 1, wordsize)

\* additional_parameters{create_npy_header(...), wordsize, callback}
additional_parameters(npyheader, size) ==
  [npyheader |-> npyheader,
   buffer_capacity |-> size,
   header_bytes_remaining |-> Len(npyheader),
   bytes_buffer_written |-> 0,
   buffer_size |-> 0,
   buffer |-> [j \in 1..size |-> 0]]

\* the mutant fills libzip's buffer to its last byte, with a part of an
\* element where no whole one fits
CallbackSplitting(size, parameters, it, nels, wordsize) ==
  [n |-> Min(size, (nels - it) * wordsize),
   bytes |-> SubSeq(Elements(it, nels - it, wordsize), 1,
                    Min(size, (nels - it) * wordsize)),
   it |-> it + (Min(size, (nels - it) * wordsize) \div wordsize),
   parameters |-> parameters]

\* the lambda of npz_save on a libzip buffer of `size` bytes:
\* [n: bytes written to libzip's buffer, bytes, it: elements_written_total,
\*  parameters]
callback(size, parameters, it, nels, wordsize) ==
  LET n_tbw == Min(size \div wordsize, nels - it)
      written == it + n_tbw
      spill == written < nels /\ size > wordsize * n_tbw
  IN  [n |-> n_tbw * wordsize,
       bytes |-> Elements(it, n_tbw, wordsize),
       it |-> IF spill THEN written + 1 ELSE written,
       parameters |-> IF spill
                      THEN [parameters EXCEPT !.buffer = ElementBytes(written, wordsize),
                                              !.buffer_size = wordsize]
                      ELSE parameters]

\* the first block of ZIP_SOURCE_READ: the copy of header bytes.
\* header_bytes_remaining is a size_t: a negative value here stands for the
\* value 2^64 larger, which is what the subtraction leaves
CopyHeader(parameters, length) ==
  IF parameters.header_bytes_remaining = 0
  THEN [bytes |-> <<>>, parameters |-> parameters, overread |-> FALSE]
  ELSE
  LET npyheader == parameters.npyheader
      tbw == Min(length, Len(npyheader))
      from == Len(npyheader) - parameters.header_bytes_remaining
  IN  [bytes |-> [j \in 1..tbw |-> IF from + j \in 1..Len(npyheader)
                                   THEN npyheader[from + j] ELSE Unspecified],
       parameters |-> [parameters EXCEPT !.header_bytes_remaining = @ - tbw],
       overread |-> from + tbw > Len(npyheader)]

\* parameters->func was not called in this read
NotCalled == [called |-> FALSE]

\* the mutant takes the side buffer for copied out whatever is left in it
BufferDrainedAlways(parameters) == TRUE

\* parameters->bytes_buffer_written == parameters->buffer_size
BufferDrained(parameters) ==
  parameters.bytes_buffer_written = parameters.buffer_size

\* the second block: the side buffer first, then the lambda on what is left
\* of libzip's buffer
CopyData(parameters, it, room, nels, wordsize) ==
  IF parameters.header_bytes_remaining # 0
  THEN [bytes |-> <<>>, parameters |-> parameters, it |-> it, func |-> NotCalled]
  ELSE
  LET buffer_tbw == parameters.buffer_size - parameters.bytes_buffer_written
      n == Min(buffer_tbw, room)
      from_buffer == SubSeq(parameters.buffer, parameters.bytes_buffer_written + 1,
                            parameters.bytes_buffer_written + n)
      copied == [parameters EXCEPT !.bytes_buffer_written = @ + n]
  IN  IF BufferDrained(copied)
      THEN LET reset == [copied EXCEPT !.bytes_buffer_written = 0, !.buffer_size = 0]
               c == callback(room - n, reset, it, nels, wordsize)
           IN  [bytes |-> from_buffer \o c.bytes, parameters |-> c.parameters,
                it |-> c.it,
                func |-> [called |-> TRUE, size |-> room - n, parameters |-> reset,
                          it |-> it, result |-> c]]
      ELSE [bytes |-> from_buffer, parameters |-> copied, it |-> it,
            func |-> NotCalled]

\* npzwrite_source_callback(userdata, data, length, ZIP_SOURCE_READ)
npzwrite_source_callback(parameters, it, length, nels, wordsize) ==
  LET h == CopyHeader(parameters, length)
      d == CopyData(h.parameters, it, length - Len(h.bytes), nels, wordsize)
  IN  [bytes_written |-> Len(h.bytes) + Len(d.bytes),
       bytes |-> h.bytes \o d.bytes,
       parameters |-> d.parameters,
       it |-> d.it,
       overread |-> h.overread,
       func |-> d.func]

StreamTypes == {"uint8_t", "int16_t", "int32_t"}

\* the byte stream of an unchunked write: the header, then the elements
Unchunked(cfg) ==
  create_npy_header(<<cfg.nels>>, map_type[cfg.T], sizeof[cfg.T], "C")
  \o Elements(0, cfg.nels, sizeof[cfg.T])

PullLengths(npyheader) ==
  (1..MaxPull) \cup {16, Len(npyheader), Len(npyheader) + 16}

NotRead == [st |-> "none", n |-> 0]

\* npz_save up to finalize_npz: the parameters are constructed, nothing is read
SInit ==
  /\ \E T \in StreamTypes, nels \in 0..MaxNels :
       /\ scfg = [T |-> T, nels |-> nels]
       /\ sp = additional_parameters(
                 create_npy_header(<<nels>>, map_type[T], sizeof[T], "C"), sizeof[T])
  /\ sit = 0
  /\ sout = <<>>
  /\ sret = NotRead

\* libzip reads on until a read returns 0
CanRead ==
  /\ sret.st \in {"none", "ok"}
  /\ sret.st = "ok" => sret.n # 0
  /\ Len(sout) < Len(Unchunked(scfg)) + MaxPull

\* a ZIP_SOURCE_READ that stays inside npyheader
SourceRead ==
  /\ CanRead
  /\ \E length \in PullLengths(sp.npyheader) :
       LET r == npzwrite_source_callback(sp, sit, length, scfg.nels, sizeof[scfg.T])
       IN  /\ ~r.overread
           /\ sp' = r.parameters
           /\ sit' = r.it
           /\ sout' = sout \o r.bytes
           /\ sret' = [st |-> "ok", n |-> r.bytes_written]
  /\ UNCHANGED <<scfg, fvars, hvars, lvars, zvars, cvars>>

\* a ZIP_SOURCE_READ whose copy_n runs off the end of npyheader: the bytes
\* it fetches are unspecified, or the process dies in the copy
SourceReadBeyondHeader ==
  /\ CanRead
  /\ \E length \in PullLengths(sp.npyheader) :
       LET r == npzwrite_source_callback(sp, sit, length, scfg.nels, sizeof[scfg.T])
       IN  /\ r.overread
           /\ \/ /\ sp' = r.parameters
                 /\ sit' = r.it
                 /\ sout' = sout \o r.bytes
                 /\ sret' = [st |-> "ok", n |-> r.bytes_written]
              \/ /\ sret' = [st |-> "crash", n |-> 0]
                 /\ UNCHANGED <<sp, sit, sout>>
  /\ UNCHANGED <<scfg, fvars, hvars, lvars, zvars, cvars>>

SNext == SourceRead \/ SourceReadBeyondHeader

StreamInit == SInit /\ FIdle /\ HIdle /\ LIdle /\ ZIdle /\ CIdle

SpecStream == StreamInit /\ [][SNext]_vars

(***************************************************************************)
(* SpecLayout: tuple_info of a record type, write_data_tuple filling its   *)
(* buffer record by record, and a tuple_iterator walking the buffer.       *)
(* C++ index k is index k + 1 here; address a of a buffer is index a + 1.  *)
(***************************************************************************)
\* the mutant takes the width of the field itself for the step
CalcOffsetsOwnWidth(element_sizes) ==
  [k \in 1..Len(element_sizes) |->
     IF k = 1 THEN 0 ELSE Sum(SubSeq(element_sizes, 2, k))]

\* calc_offsets_impl<k>(offsets)
RECURSIVE calc_offsets_impl(_, _, _)
calc_offsets_impl(offsets, element_sizes, k) ==
  IF k > Len(element_sizes) THEN offsets
  ELSE calc_offsets_impl([offsets EXCEPT ![k] = offsets[k - 1] + element_sizes[k - 1]],
                         element_sizes, k + 1)

\* tuple_info<Tup>::offsets
calc_offsets(element_sizes) ==
  calc_offsets_impl([k \in 1..Len(element_sizes) |-> 0], element_sizes, 2)

\* tuple_info<Tup>::sum_sizes
sum_size_impl(element_sizes) == Sum(element_sizes)

\* std::copy(beg, beg + n, buffer + at)
CopyAt(buffer, at, bytes) ==
  [a \in 1..Len(buffer) |->
     IF a - at \in 1..Len(bytes) THEN bytes[a - at] ELSE buffer[a]]

\* fill<T, k>(tup, buffer): the buffer argument is the address `base`
RECURSIVE fill(_, _, _, _, _)
fill(tup, buffer, base, element_sizes, k) ==
  IF k > Len(element_sizes) THEN buffer
  ELSE fill(tup, CopyAt(buffer, base + calc_offsets(element_sizes)[k], tup[k]),
            base, element_sizes, k + 1)

\* tuple_iterator::unpack<0>(element_addresses): the address of every field,
\* to which dereference() binds the references it returns
unpack(ptr_, element_sizes) ==
  [k \in 1..Len(element_sizes) |-> ptr_ + calc_offsets(element_sizes)[k]]

\* the t-th tuple (from 0) of the source range: every byte of every field
\* has a value of its own
SourceTuple(t, element_sizes) ==
  [k \in 1..Len(element_sizes) |->
     [j \in 1..element_sizes[k] |-> 256 + 64 * t + 8 * (k - 1) + (j - 1)]]

\* sizeof(Buffer): an object of a class with virtual functions and no data
\* member holds the pointer to its table
sizeof_Buffer == 8

\* the labels of an NpyArray of n fields: "a", "b", "c"
FieldLabels(n) == [k \in 1..n |-> <<96 + k>>]

\* std::find(labels.cbegin(), labels.cend(), name), as the distance of its
\* result from labels.cbegin(): Len(labels) stands for labels.cend()
RECURSIVE find(_, _, _)
find(labels, name, d) ==
  IF d >= Len(labels) THEN Len(labels)
  ELSE IF labels[d + 1] = name THEN d
  ELSE find(labels, name, d + 1)

\* the base address column_range gives its iterators: buffer.get(), the
\* Buffer object the NpyArray owns, where tuple_range takes buffer->data(),
\* the bytes of the array.  Pointer arithmetic on it counts Buffer objects.
ColumnBase == [object |-> "Buffer", unit |-> sizeof_Buffer]

\* NpyArray::column_range<TValueType>(name) with sizeof(TValueType) = size.
\* A view is the object its addresses lie in, the byte addresses of its two
\* iterators (relative to that object) and the stride of operator+=.
column_range(labels, word_sizes, num_vals, name, size) ==
  LET d == find(labels, name, 0)
      total_value_size == Sum(word_sizes)
      offset == Sum(SubSeq(word_sizes, 1, d))
  IN
  IF d = Len(labels)
    THEN [threw |-> "column_range: not found in labels"]
  ELSE IF d + 1 > Len(word_sizes)
    THEN [threw |-> "vector::at"]
  ELSE IF word_sizes[d + 1] # size
    THEN [threw |-> "column_range: word sizes of requested type and data do not match"]
  ELSE [threw |-> "",
        object |-> ColumnBase.object,
        beg |-> ColumnBase.unit * offset,
        end |-> ColumnBase.unit * (offset + total_value_size * num_vals),
        stride |-> total_value_size]

\* NpyArray::compare_word_sizes<TArgs...>(): std::equal of two whole ranges
compare_word_sizes(requested_type_sizes, word_sizes) ==
  requested_type_sizes = word_sizes

\* NpyArray::tuple_range<TArgs...>(force_check), not const
tuple_range(word_sizes, num_vals, requested_type_sizes, force_check) ==
  IF force_check /\ ~compare_word_sizes(requested_type_sizes, word_sizes)
    THEN [threw |-> "tuple_range: word sizes do not match requested types"]
  ELSE [threw |-> "",
        object |-> "data",
        beg |-> 0,
        end |-> num_vals * Sum(word_sizes),
        stride |-> Sum(requested_type_sizes)]

\* the addresses a range-based for loop over a view dereferences: from beg
\* in steps of stride until the iterator compares equal to end
ViewAddresses(view) ==
  {view.beg + k * view.stride : k \in 0..(((view.end - view.beg) \div view.stride) - 1)}

Widths == {1, 2, 4}

\* write_data_tuple(start, nels, fs) before its loop: a zeroed buffer of
\* nels records
LInit ==
  /\ \E element_sizes \in SeqsUpTo(Widths, MaxWidths), nels \in 1..MaxTuples :
       /\ lsizes = element_sizes
       /\ lbuf = [a \in 1..(nels * sum_size_impl(element_sizes)) |-> 0]
  /\ lpc = [at |-> "fill", count |-> 0, ptr_ |-> 0]
  /\ lread = <<>>

\* one turn of the inner loop of write_data_tuple
FillNext ==
  /\ lpc.at = "fill"
  /\ lpc.count * sum_size_impl(lsizes) < Len(lbuf)
  /\ lbuf' = fill(SourceTuple(lpc.count, lsizes), lbuf,
                  lpc.count * sum_size_impl(lsizes), lsizes, 1)
  /\ lpc' = [lpc EXCEPT !.count = @ + 1]
  /\ UNCHANGED <<lsizes, lread, fvars, hvars, svars, zvars, cvars>>

\* the buffer is full: a tuple_iterator is put on its first byte
BeginRead ==
  /\ lpc.at = "fill"
  /\ lpc.count * sum_size_impl(lsizes) = Len(lbuf)
  /\ lpc' = [lpc EXCEPT !.at = "read", !.ptr_ = 0]
  /\ UNCHANGED <<lsizes, lbuf, lread, fvars, hvars, svars, zvars, cvars>>

\* *it followed by ++it
DerefIncrement ==
  /\ lpc.at = "read"
  /\ lpc.ptr_ < Len(lbuf)
  /\ lread' = Append(lread, unpack(lpc.ptr_, lsizes))
  /\ lpc' = [lpc EXCEPT !.ptr_ = @ + sum_size_impl(lsizes)]
  /\ UNCHANGED <<lsizes, lbuf, fvars, hvars, svars, zvars, cvars>>

\* the buffer is full and owned by an NpyArray with labels "a", "b", ...:
\* column_range<TValueType>(name) is called on it
ColumnRange ==
  /\ lpc.at = "fill"
  /\ lpc.count * sum_size_impl(lsizes) = Len(lbuf)
  /\ \E name \in {<<96 + k>> : k \in 1..(MaxWidths + 1)}, size \in Widths :
       lpc' = [at |-> "column", count |-> lpc.count, ptr_ |-> 0,
               name |-> name, size |-> size,
               view |-> column_range(FieldLabels(Len(lsizes)), lsizes,
                                     lpc.count, name, size)]
  /\ UNCHANGED <<lsizes, lbuf, lread, fvars, hvars, svars, zvars, cvars>>

\* tuple_range<TArgs...>(force_check) is called on it
TupleRange ==
  /\ lpc.at = "fill"
  /\ lpc.count * sum_size_impl(lsizes) = Len(lbuf)
  /\ \E requested \in SeqsUpTo(Widths, MaxWidths), force_check \in BOOLEAN :
       lpc' = [at |-> "tuple", count |-> lpc.count, ptr_ |-> 0,
               requested |-> requested, force_check |-> force_check,
               view |-> tuple_range(lsizes, lpc.count, requested, force_check)]
  /\ UNCHANGED <<lsizes, lbuf, lread, fvars, hvars, svars, zvars, cvars>>

LNext == FillNext \/ BeginRead \/ DerefIncrement \/ ColumnRange \/ TupleRange

LayoutInit == LInit /\ FIdle /\ HIdle /\ SIdle /\ ZIdle /\ CIdle

SpecLayout == LayoutInit /\ [][LNext]_vars

(***************************************************************************)
(* SpecArchive: one NPZ archive, written by npz_save (both overloads) and  *)
(* by another zip tool, read by npz_load (both overloads) through          *)
(* load_npy.  An entry is [name, data]: its raw name and its uncompressed  *)
(* bytes.  libzip reads a zip source with a buffer of BufSize bytes until  *)
(* a read returns 0.                                                       *)
(***************************************************************************)
npy_suffix == <<46, 110, 112, 121>>     \* ".npy"

\* the payload bytes of the w-th save differ from those of every other save
FromSource(bytes, w) ==
  [k \in 1..Len(bytes) |-> IF bytes[k] >= 256 THEN bytes[k] + 4096 * w ELSE bytes[k]]

\* zip_close reading the source of the added entry to its end
RECURSIVE ReadSource(_, _, _, _, _)

\* what zip_close does with the result r of one ZIP_SOURCE_READ
AfterRead(r, nels, wordsize, out) ==
  IF r.bytes_written = 0 THEN out
  ELSE ReadSource(r.parameters, r.it, nels, wordsize, out \o r.bytes)

ReadSource(parameters, it, nels, wordsize, out) ==
  AfterRead(npzwrite_source_callback(parameters, it, BufSize, nels, wordsize),
            nels, wordsize, out)

\* zip_name_locate(archive, fname, ZIP_FL_ENC_RAW): the index from 1, 0 for -1
zip_name_locate(entries, fname) ==
  IF \E i \in 1..Len(entries) : entries[i].name = fname
  THEN SetMin({i \in 1..Len(entries) : entries[i].name = fname})
  ELSE 0

\* the mutant adds without ZIP_FL_OVERWRITE and keeps the older entry
ZipFileAddKeepOld(entries, fname, data) ==
  Append(entries, [name |-> fname, data |-> data, comp_method |-> "ZIP_CM_DEFLATE"])

\* zip_file_add(archive, fname, source, ZIP_FL_OVERWRITE | ZIP_FL_ENC_UTF_8):
\* no compression method is set, the entry is deflated
zip_file_add(entries, fname, data) ==
  LET i == zip_name_locate(entries, fname)
      e == [name |-> fname, data |-> data, comp_method |-> "ZIP_CM_DEFLATE"]
  IN  IF i = 0 THEN Append(entries, e) ELSE [entries EXCEPT ![i] = e]

\* prepare_npz: zip_open with ZIP_CREATE | ZIP_TRUNCATE in mode "w", with
\* ZIP_CREATE otherwise; the entries of the archive that is now open
prepare_npz(z, mode) ==
  IF mode = "w" \/ ~z.exists THEN <<>> ELSE z.entries

\* finalize_npz(archive, fname, parameters): the archive zip_close leaves
finalize_npz(entries, fname, parameters, nels, wordsize, w) ==
  [exists |-> TRUE,
   entries |-> zip_file_add(entries, fname \o npy_suffix,
                            FromSource(ReadSource(parameters, 0, nels, wordsize, <<>>), w))]

ZSaved(z) == [threw |-> "", zip |-> z]
ZThrew(msg, z) == [threw |-> msg, zip |-> z]

\* npz_save(zipname, fname, start, shape, mode, memory_order), value_type T
npz_save(z, w, fname, T, shape, mode, memory_order) ==
  LET archive == prepare_npz(z, mode)
      parameters == additional_parameters(
                      create_npy_header(shape, map_type[T], sizeof[T], memory_order),
                      sizeof[T])
  IN  ZSaved(finalize_npz(archive, fname, parameters, nels_of(shape), sizeof[T], w))

\* npz_save(zipname, fname, labels, first, shape, mode, memory_order),
\* value_type a tuple of the element types `types`
npz_save_struct(z, w, fname, labels, types, shape, mode, memory_order) ==
  IF LabelsMismatch(labels, types)
  THEN ZThrew("libcnpy++: number of labels does not match tuple size", z)
  ELSE IF create_npy_header_throws(labels, DtypesOf(types), SizesOf(types))
  THEN \* the archive prepare_npz has opened is never closed: nothing is written
       ZThrew("create_npy_header: sizes of argument vectors not equal", z)
  ELSE
  LET sum_size == Sum(SizesOf(types))
      archive == prepare_npz(z, mode)
      parameters == additional_parameters(
                      create_npy_header_struct(shape, labels, DtypesOf(types),
                                               SizesOf(types), memory_order),
                      sum_size)
  IN  ZSaved(finalize_npz(archive, fname, parameters, nels_of(shape), sum_size, w))

\* NpyArray(NpyArray&& other): every member but `labels` is taken from other
NpyArrayMove(other) == [other EXCEPT !.labels = <<>>]

max_header_size == 65546

\* zip_fopen_index(archive, index, ZIP_FL_ENC_RAW): a file handle at the
\* first byte of the entry's uncompressed data
zip_fopen_index(data) == [data |-> data, pos |-> 0]

\* zip_fread(file, buf, nbytes): the bytes from the position on, as many as
\* there are, and the handle moved past them
zip_fread(zfile, nbytes) ==
  [bytes |-> SubSeq(zfile.data, zfile.pos + 1, Min(zfile.pos + nbytes, Len(zfile.data))),
   file |-> [zfile EXCEPT !.pos = Min(zfile.pos + nbytes, Len(zfile.data))]]

\* the mutant leaves the handle where it is
ZipFseekNowhere(zfile, offset) == [rc |-> 0, file |-> zfile]

\* zip_fseek(file, offset, SEEK_SET) on a stored entry
zip_fseek(zfile, offset) ==
  IF offset < 0 \/ offset > Len(zfile.data) THEN [rc |-> -1, file |-> zfile]
  ELSE [rc |-> 0, file |-> [zfile EXCEPT !.pos = offset]]

\* header_buffer after zip_fread(file, header_buffer.get(), max_header_size):
\* the entry's first bytes, then the zeros of make_unique<char[]>, as far as
\* the parser reads
HeaderBuffer(data) ==
  LET Zeros(n) == [k \in 1..n |-> 0]
      read == zip_fread(zip_fopen_index(data), max_header_size).bytes
      preamble == IF Len(read) >= 10 THEN read ELSE read \o Zeros(10 - Len(read))
      upto == 10 + HeaderLen(preamble)
  IN  IF Len(read) >= upto THEN read ELSE read \o Zeros(upto - Len(read))

\* what load_npy returns or throws, and the entry file handles it leaves open
LoadedArray(h, bytes) ==
  [threw |-> "", ub |-> FALSE, files |-> 0,
   arr |-> NpyArray(h.shape, h.word_sizes, h.labels, h.memory_order, bytes)]
LoadThrew(msg, files) ==
  [threw |-> msg, ub |-> FALSE, files |-> files, arr |-> NoArray]

\* "now read data": zip_fread(file, buffer->data(), num_bytes), `bytes` being
\* what it has read
ReadData(h, num_bytes, bytes) ==
  IF Len(bytes) # num_bytes THEN LoadThrew("libcnpy++: zip_fread() failed", 0)
  ELSE LoadedArray(h, bytes)

\* the branch of a stored entry: seek to the data and read; `sought` is what
\* zip_fseek made of the handle that has read header_buffer
ReadStored(h, num_bytes, sought) ==
  IF sought.rc # 0 THEN LoadThrew("libcnpy++: zip_seek() failed", 0)
  ELSE ReadData(h, num_bytes, zip_fread(sought.file, num_bytes).bytes)

\* the branch of a compressed entry: the file is opened again, offset bytes
\* are read into tmp and the data after them; a negative offset makes
\* make_unique<char[]>(offset) throw with the new handle open
ReadCompressed(data, h, offset, num_bytes) ==
  IF offset < 0 THEN LoadThrew("std::bad_alloc", 1)
  ELSE IF Len(zip_fread(zip_fopen_index(data), offset).bytes) # offset
  THEN LoadThrew("libcnpy++: zip_fread() failed", 0)
  ELSE ReadData(h, num_bytes,
                zip_fread(zip_fread(zip_fopen_index(data), offset).file,
                          num_bytes).bytes)

\* load_npy(archive, index) from line 243 on: header_buffer holds the entry's
\* first bytes and h is what parse_npy_header made of them
LoadNpyPayload(data, comp_method, header_buffer, h) ==
  IF h.throw # ""
  THEN LoadThrew(h.throw, 1)
  ELSE
  LET size == Len(data)
      num_bytes == Sum(h.word_sizes) * Product(h.shape)
      offset == size - num_bytes
      zfile == zip_fread(zip_fopen_index(data), max_header_size).file
  IN  IF size <= max_header_size
      THEN IF offset < 0
           THEN [threw |-> "", ub |-> TRUE, files |-> 0, arr |-> NoArray]
           ELSE LoadedArray(h, [k \in 1..num_bytes |-> header_buffer[offset + k]])
      ELSE IF comp_method = "ZIP_CM_STORE"
           THEN ReadStored(h, num_bytes, zip_fseek(zfile, offset))
           ELSE ReadCompressed(data, h, offset, num_bytes)

\* load_npy(archive, index) from the parse of header_buffer on
LoadNpyHeader(data, comp_method, header_buffer) ==
  LoadNpyPayload(data, comp_method, header_buffer,
                 parse_npy_header_buffer(header_buffer))

\* load_npy(archive, index) on the entry of uncompressed bytes `data`: the
\* array it returns or the error it throws, the entry file handles it leaves
\* open (`files`), and `ub` when copy_n starts in front of header_buffer
load_npy(data, comp_method) ==
  LoadNpyHeader(data, comp_method, HeaderBuffer(data))

ZLoaded(arrays) ==
  [threw |-> "", ub |-> FALSE, arrays |-> arrays, open |-> NoHandles]
ZLoadThrew(msg, archives, files) ==
  [threw |-> msg, ub |-> FALSE, arrays |-> {},
   open |-> [archives |-> archives, files |-> files]]
ZLoadUndefined ==
  [threw |-> "", ub |-> TRUE, arrays |-> {}, open |-> NoHandles]

RECURSIVE LoadEntries(_, _, _)

\* the body of the loop of npz_load(fname) once load_npy has returned `array`
\* or thrown: arrays.emplace(stripped_name, std::move(array))
EmplaceEntry(entries, i, arrays, stripped_name, array) ==
  IF array.threw # "" THEN ZLoadThrew(array.threw, 1, array.files)
  ELSE IF array.ub THEN ZLoadUndefined
  ELSE LoadEntries(entries, i + 1,
         IF \E a \in arrays : a.name = stripped_name THEN arrays
         ELSE arrays \cup {[name |-> stripped_name,
                            array |-> NpyArrayMove(array.arr)]})

\* the loop of npz_load(fname) from entry i on, `arrays` being the map so far
LoadEntries(entries, i, arrays) ==
  IF i > Len(entries) THEN ZLoaded(arrays)
  ELSE
  LET filename_view == entries[i].name
      size == Len(filename_view)
  IN  IF size < 4
      THEN \* substr(size() - 4, size()): the position is beyond the end
           ZLoadThrew("std::out_of_range", 1, 0)
      ELSE IF SubSeq(filename_view, size - 3, size) # npy_suffix
      THEN LoadEntries(entries, i + 1, arrays)
      ELSE EmplaceEntry(entries, i, arrays, SubSeq(filename_view, 1, size - 4),
                        load_npy(entries[i].data, entries[i].comp_method))

\* npz_load(fname)
npz_load(z) ==
  IF ~z.exists THEN ZLoadThrew("zip_open", 0, 0)
  ELSE LoadEntries(z.entries, 1, {})

\* npz_load(fname, varname) once load_npy has returned `array` or thrown:
\* `elided` tells whether the build constructs the local `array` in the return
\* slot or moves it there
ReturnArray(varname, array, elided) ==
  IF array.threw # "" THEN ZLoadThrew(array.threw, 1, array.files)
  ELSE IF array.ub THEN ZLoadUndefined
  ELSE ZLoaded({[name |-> varname,
                 array |-> IF elided THEN array.arr ELSE NpyArrayMove(array.arr)]})

\* npz_load(fname, varname) once zip_name_locate has returned index (from 1)
LoadIndex(z, varname, index, elided) ==
  IF index = 0 THEN ZLoadThrew("npz_load: Variable name not found", 1, 0)
  ELSE ReturnArray(varname, load_npy(z.entries[index].data,
                            z.entries[index].comp_method), elided)

\* npz_load(fname, varname)
npz_load_var(z, varname, elided) ==
  IF ~z.exists THEN ZLoadThrew("zip_open", 0, 0)
  ELSE LoadIndex(z, varname, zip_name_locate(z.entries, varname \o npy_suffix),
                 elided)

\* the arrays the callers save: `T` for the iterator overload, `labels` and
\* `types` for the tuple overload (the last one has a label too few)
ZArrays ==
  { [kind |-> "plain", T |-> "int16_t", labels |-> <<>>, types |-> <<>>,
     shape |-> <<2>>, memory_order |-> "C"],
    [kind |-> "plain", T |-> "uint8_t", labels |-> <<>>, types |-> <<>>,
     shape |-> <<1, 2>>, memory_order |-> "Fortran"],
    [kind |-> "struct", T |-> "", labels |-> <<<<97>>, <<98>>, <<99>>>>,
     types |-> <<"int32_t", "uint8_t", "int16_t">>,
     shape |-> <<2>>, memory_order |-> "C"],
    [kind |-> "struct", T |-> "", labels |-> <<<<97>>>>, types |-> <<"int32_t">>,
     shape |-> <<1, 2>>, memory_order |-> "Fortran"],
    [kind |-> "struct", T |-> "", labels |-> <<<<97>>>>,
     types |-> <<"int32_t", "uint8_t">>,
     shape |-> <<1>>, memory_order |-> "C"] }

ZNames == {<<97>>, <<98>>}                       \* "a", "b"
ZVarNames == ZNames \cup {<<99>>, <<98, 97, 100>>}   \* and "c", "bad"

\* entries another zip tool puts into the archive: "x", "readme.txt" and a
\* "bad.npy" that holds no NPY file
ForeignEntries ==
  { [name |-> <<120>>, data |-> <<104, 105>>, comp_method |-> "ZIP_CM_STORE"],
    [name |-> <<114, 101, 97, 100, 109, 101, 46, 116, 120, 116>>,
     data |-> <<104, 105>>, comp_method |-> "ZIP_CM_STORE"],
    [name |-> <<98, 97, 100>> \o npy_suffix, data |-> <<104, 105>>,
     comp_method |-> "ZIP_CM_STORE"] }

IsForeign(e) == \E f \in ForeignEntries : f.name = e.name

ZInit ==
  /\ zip = NoArchive
  /\ zsaved = <<>>
  /\ zres = NoZipCall
  /\ zopen = NoHandles

ZSaveCall(r, fname, mode) ==
  [op |-> "npz_save", threw |-> r.threw, ub |-> FALSE, arrays |-> {},
   fname |-> fname, mode |-> mode]

ZLoadCall(op, r, varname) ==
  [op |-> op, threw |-> r.threw, ub |-> r.ub, arrays |-> r.arrays,
   fname |-> varname, mode |-> ""]

\* the overload of npz_save the array `a` selects
NpzSaveCall(z, w, fname, a, mode) ==
  IF a.kind = "plain"
  THEN npz_save(z, w, fname, a.T, a.shape, mode, a.memory_order)
  ELSE npz_save_struct(z, w, fname, a.labels, a.types, a.shape, mode,
                       a.memory_order)

\* a call of npz_save, either overload
NpzSave ==
  /\ Len(zsaved) < MaxSaves
  /\ \E fname \in ZNames, a \in ZArrays, mode \in {"w", "a"} :
       \E r \in {NpzSaveCall(zip, Len(zsaved) + 1, fname, a, mode)} :
         /\ zip' = r.zip
         /\ zsaved' = Append(zsaved, [fname |-> fname, array |-> a, mode |-> mode,
                                      threw |-> r.threw])
         /\ zres' = ZSaveCall(r, fname, mode)
         /\ zopen' = NoHandles
  /\ UNCHANGED <<fvars, hvars, svars, lvars, cvars>>

\* another zip tool adds an entry to the archive
ForeignAdd ==
  /\ zip.exists
  /\ \A i \in 1..Len(zip.entries) : ~IsForeign(zip.entries[i])
  /\ \E e \in ForeignEntries :
       zip' = [zip EXCEPT !.entries = Append(@, e)]
  /\ zres' = NoZipCall
  /\ zopen' = NoHandles
  /\ UNCHANGED <<zsaved, fvars, hvars, svars, lvars, cvars>>

\* a call of npz_load(fname)
NpzLoad ==
  /\ \E r \in {npz_load(zip)} :
       /\ zres' = ZLoadCall("npz_load", r, <<>>)
       /\ zopen' = r.open
  /\ UNCHANGED <<zip, zsaved, fvars, hvars, svars, lvars, cvars>>

\* a call of npz_load(fname, varname)
NpzLoadVar ==
  /\ \E varname \in ZVarNames, elided \in BOOLEAN :
       \E r \in {npz_load_var(zip, varname, elided)} :
         /\ zres' = ZLoadCall("npz_load_var", r, varname)
         /\ zopen' = r.open
  /\ UNCHANGED <<zip, zsaved, fvars, hvars, svars, lvars, cvars>>

ZNext == NpzSave \/ ForeignAdd \/ NpzLoad \/ NpzLoadVar

ArchiveInit == ZInit /\ FIdle /\ HIdle /\ SIdle /\ LIdle /\ CIdle

SpecArchive == ArchiveInit /\ [][ZNext]_vars

(***************************************************************************)
(* SpecEntry: load_npy on one entry of an open archive that holds an NPY   *)
(* file, small or larger than max_header_size, stored or deflated.         *)
(***************************************************************************)
CompMethods == {"ZIP_CM_STORE", "ZIP_CM_DEFLATE"}

\* the payload of an entry: byte k (from 0) is 256 + k
EntryPayload(num_bytes) == [k \in 1..num_bytes |-> 256 + (k - 1)]

\* the element count with which an entry of type T is as large as
\* max_header_size allows, or falls short of it by less than an element
NelsAtLimit(T) ==
  (max_header_size
   - Len(create_npy_header(<<max_header_size>>, map_type[T], sizeof[T], "C")))
  \div sizeof[T]

\* element counts of small entries, and of entries just below, at and
\* beyond the size of header_buffer
EntryNels(T) ==
  (0..MaxNels) \cup {NelsAtLimit(T) + d : d \in (-1)..MaxOver}

\* the NPY file of nels elements of type T
NpyFile(T, nels, memory_order) ==
  create_npy_header(<<nels>>, map_type[T], sizeof[T], memory_order)
  \o EntryPayload(nels * sizeof[T])

\* an archive of one entry "a.npy" is open, nothing is loaded
EInit ==
  /\ \E T \in StreamTypes, memory_order \in MemoryOrder, comp_method \in CompMethods :
       \E nels \in EntryNels(T) :
         zip = [exists |-> TRUE,
                entries |-> <<[name |-> <<97>> \o npy_suffix,
                               data |-> NpyFile(T, nels, memory_order),
                               comp_method |-> comp_method]>>]
  /\ zsaved = <<>>
  /\ zres = NoZipCall
  /\ zopen = NoHandles

\* the bookkeeping of a call of load_npy(archive, 0) that returned r
EntryLoaded(r) ==
  /\ zres' = [op |-> "load_npy", threw |-> r.threw, ub |-> r.ub,
              arrays |-> {[name |-> <<97>>, array |-> r.arr]},
              fname |-> <<97>>, mode |-> ""]
  /\ zopen' = [archives |-> 0, files |-> r.files]
  /\ UNCHANGED <<zip, zsaved, fvars, hvars, svars, lvars, cvars>>

\* load_npy on an entry that header_buffer holds whole
LoadWithinBuffer ==
  /\ zres.op = "none"
  /\ Len(zip.entries[1].data) <= max_header_size
  /\ \E r \in {load_npy(zip.entries[1].data, zip.entries[1].comp_method)} :
       EntryLoaded(r)

\* load_npy on a larger entry that is stored: zip_fseek, then zip_fread
LoadStored ==
  /\ zres.op = "none"
  /\ Len(zip.entries[1].data) > max_header_size
  /\ zip.entries[1].comp_method = "ZIP_CM_STORE"
  /\ \E r \in {load_npy(zip.entries[1].data, zip.entries[1].comp_method)} :
       EntryLoaded(r)

\* load_npy on a larger entry that is compressed: reopen, read the bytes in
\* front of the data, then the data
LoadCompressed ==
  /\ zres.op = "none"
  /\ Len(zip.entries[1].data) > max_header_size
  /\ zip.entries[1].comp_method # "ZIP_CM_STORE"
  /\ \E r \in {load_npy(zip.entries[1].data, zip.entries[1].comp_method)} :
       EntryLoaded(r)

ENext == LoadWithinBuffer \/ LoadStored \/ LoadCompressed

EntryInit == EInit /\ FIdle /\ HIdle /\ SIdle /\ LIdle /\ CIdle

SpecEntry == EntryInit /\ [][ENext]_vars

(***************************************************************************)
(* SpecCount: the number of elements the savers write for a shape and the  *)
(* number npy_load expects, for shapes whose product goes beyond 31 bits.  *)
(* A size_t is its 8 bytes, an int its 4 bytes, least significant first;   *)
(* a file is the shape in its header and the count of elements after it.   *)
(***************************************************************************)
sizeof_size_t == 8
sizeof_int == 4

\* the integer n, 0 <= n < 2^31, in len bytes
Bytes(n, len) ==
  [k \in 1..len |-> IF k > 4 THEN 0 ELSE (n \div (256 ^ (k - 1))) % 256]

\* column k of the long multiplication of a and b
RECURSIVE Column(_, _, _, _)
Column(a, b, k, i) ==
  IF i > k THEN 0 ELSE a[i] * b[k + 1 - i] + Column(a, b, k, i + 1)

RECURSIVE MultiplyFrom(_, _, _, _, _)
MultiplyFrom(a, b, k, carry, len) ==
  IF k > len THEN <<>>
  ELSE <<(Column(a, b, k, 1) + carry) % 256>>
       \o MultiplyFrom(a, b, k + 1, (Column(a, b, k, 1) + carry) \div 256, len)

\* a * b modulo 256^len, a and b of len bytes
Multiply(a, b, len) == MultiplyFrom(a, b, 1, 0, len)

\* std::multiplies<size_t>()(a, b)
multiplies(a, b) == Multiply(a, b, sizeof_size_t)

\* the conversion of an int to size_t: the sign is extended
IntToSizeT(acc) ==
  acc \o [k \in 1..(sizeof_size_t - sizeof_int) |->
            IF acc[sizeof_int] >= 128 THEN 255 ELSE 0]

\* the conversion of a size_t to int: the low bytes are kept
SizeTToInt(x) == SubSeq(x, 1, sizeof_int)

\* std::accumulate(first, last, 1, std::multiplies<size_t>()): the
\* accumulator has the type of the initial value, int, and every product is
\* converted to it
RECURSIVE accumulate_int(_, _)
accumulate_int(shape, acc) ==
  IF shape = <<>> THEN acc
  ELSE accumulate_int(Tail(shape),
         SizeTToInt(multiplies(IntToSizeT(acc), Bytes(shape[1], sizeof_size_t))))

\* size_t const nels = std::accumulate(shape.begin(), shape.end(), 1, ...)
nels_wide(shape) == IntToSizeT(accumulate_int(shape, Bytes(1, sizeof_int)))

\* std::accumulate(first, last, size_t{1}, std::multiplies<size_t>())
RECURSIVE accumulate_size_t(_, _)
accumulate_size_t(shape, acc) ==
  IF shape = <<>> THEN acc
  ELSE accumulate_size_t(Tail(shape),
                         multiplies(acc, Bytes(shape[1], sizeof_size_t)))

\* num_vals of npy_load and load_npy
num_vals(shape) == accumulate_size_t(shape, Bytes(1, sizeof_size_t))

\* dimensions whose products pass 2^31 and 2^32
WideDims == {0, 1, 3, 32768, 46341, 65536, 2147483647}

WideShapes == SeqsUpTo(WideDims, MaxWideRank)

CInit ==
  /\ cfile = NoCount
  /\ cload = NoCount

\* what a saver in mode "w" leaves: the header of `shape` and nels elements
Counted(op, shape, nels) == [op |-> op, shape |-> shape, nels |-> nels]

\* npy_save(fname, start, shape, "w"): write_data(start, nels, fs)
CountNpySave ==
  /\ \E shape \in WideShapes :
       cfile' = Counted("npy_save", shape, nels_wide(shape))
  /\ cload' = NoCount
  /\ UNCHANGED <<fvars, hvars, svars, lvars, zvars>>

\* npy_save(fname, labels, first, shape, "w"): write_data_tuple(first, nels, fs)
CountNpySaveStruct ==
  /\ \E shape \in WideShapes :
       cfile' = Counted("npy_save_struct", shape, nels_wide(shape))
  /\ cload' = NoCount
  /\ UNCHANGED <<fvars, hvars, svars, lvars, zvars>>

\* npz_save(zipname, fname, start, shape, "w"): nels of prepare_npz bounds
\* the elements the lambda hands out
CountNpzSave ==
  /\ \E shape \in WideShapes :
       cfile' = Counted("npz_save", shape, nels_wide(shape))
  /\ cload' = NoCount
  /\ UNCHANGED <<fvars, hvars, svars, lvars, zvars>>

\* npy_load, or load_npy on the entry: num_vals from the shape of the header
CountLoad ==
  /\ cfile # NoCount
  /\ cload = NoCount
  /\ cload' = [op |-> "npy_load", nels |-> num_vals(cfile.shape)]
  /\ UNCHANGED <<cfile, fvars, hvars, svars, lvars, zvars>>

CNext == CountNpySave \/ CountNpySaveStruct \/ CountNpzSave \/ CountLoad

CountInit == CInit /\ FIdle /\ HIdle /\ SIdle /\ LIdle /\ ZIdle

SpecCount == CountInit /\ [][CNext]_vars

(***************************************************************************)
(* SpecLabels: the two structured savers, npy_save on a file and npz_save  *)
(* on an archive, called with label lists of any length.                   *)
(***************************************************************************)
\* label lists of 0 to 3 labels for a record of 2 fields
LabelRecords ==
  { [labels |-> l, types |-> <<"int32_t", "uint8_t">>] :
      l \in {<<>>, <<<<97>>>>, <<<<97>>, <<98>>>>, <<<<97>>, <<98>>, <<99>>>>} }

LabelShapes == {<<2>>}
LabelNames == {<<97>>}

\* a call of the structured npy_save
LabelledNpySave ==
  /\ \E h \in {ExistingHeader(file)} :
     \E rec \in LabelRecords, shape \in LabelShapes, mode \in {"w", "a"},
        memory_order \in MemoryOrder :
       \E r \in {npy_save_struct(file, h,
                                 IF mode = "a" /\ file.exists
                                 THEN Len(hist) + 1 ELSE 1,
                                 rec.labels, rec.types, shape, mode, memory_order)} :
         /\ (mode = "a" /\ file.exists) => Len(hist) < MaxWrites
         /\ \E out \in Outcomes(r, file) :
              AfterSave(out, SaveCall("npy_save_struct", mode),
                        Written("npy_save_struct", mode, rec.labels, rec.types,
                                shape, memory_order,
                                nels_of(shape) * Sum(SizesOf(rec.types))))
  /\ UNCHANGED <<hvars, svars, lvars, zvars, cvars>>

\* a call of the structured npz_save
LabelledNpzSave ==
  /\ Len(zsaved) < MaxSaves
  /\ \E fname \in LabelNames, rec \in LabelRecords, shape \in LabelShapes,
        mode \in {"w", "a"} :
       \E r \in {npz_save_struct(zip, Len(zsaved) + 1, fname, rec.labels,
                                 rec.types, shape, mode, "C")} :
         /\ zip' = r.zip
         /\ zsaved' = Append(zsaved,
                        [fname |-> fname, mode |-> mode, threw |-> r.threw,
                         array |-> [kind |-> "struct", T |-> "",
                                    labels |-> rec.labels, types |-> rec.types,
                                    shape |-> shape, memory_order |-> "C"]])
         /\ zres' = ZSaveCall(r, fname, mode)
         /\ zopen' = NoHandles
  /\ UNCHANGED <<fvars, hvars, svars, lvars, cvars>>

LabelsNext == LabelledNpySave \/ LabelledNpzSave

LabelsInit == FInit /\ ZInit /\ HIdle /\ SIdle /\ LIdle /\ CIdle

SpecLabels == LabelsInit /\ [][LabelsNext]_vars

(***************************************************************************)
(* Claims on npy_save and npy_load (Spec).                                 *)
(***************************************************************************)
\* the file holds the writes of the plain overload only, the first in mode "w"
PlainFile ==
  /\ file.exists
  /\ hist # <<>>
  /\ hist[1].mode = "w"
  /\ \A i \in 1..Len(hist) : hist[i].op = "npy_save"

\* the source data of the writes i..Len(hist), in call order
RECURSIVE SourcesFrom(_)
SourcesFrom(i) ==
  IF i > Len(hist) THEN <<>>
  ELSE <<SrcChunk(i, 0, hist[i].nbytes)>> \o SourcesFrom(i + 1)

RECURSIVE SumFirstDims(_)
SumFirstDims(i) ==
  IF i > Len(hist) THEN 0 ELSE hist[i].shape[1] + SumFirstDims(i + 1)

\* C1: npy_load of a file written by one npy_save in mode "w", for a
\* single-field element type, a shape of rank >= 1 and either memory order,
\* returns the shape, word sizes, labels, memory order and payload bytes saved.
C1_SaveLoadRoundTrip ==
  (PlainFile /\ Len(hist) = 1 /\ last.op = "npy_load") =>
    /\ last.threw = ""
    /\ arr.valid
    /\ arr.shape = hist[1].shape
    /\ arr.word_sizes = <<sizeof[hist[1].types[1]]>>
    /\ arr.labels = <<>>
    /\ arr.memory_order = hist[1].memory_order
    /\ arr.data = Norm(SourcesFrom(1))

\* a memory-mapped load of a written file that has payload bytes
C1_Witness ==
  /\ PlainFile
  /\ Len(hist) = 1
  /\ hist[1].nbytes > 0
  /\ last.op = "npy_load"
  /\ last.memory_mapped
  /\ arr.valid

\* C2: after a mode "w" save of shape (a, b, c) and successful mode "a" saves
\* of shapes (a_i, b, c) under RowMajor, npy_load returns the shape
\* (a + sum of a_i, b, c) and the concatenation of the writes' source data.
C2_AppendConcatenates ==
  ( /\ PlainFile
    /\ Len(hist) >= 2
    /\ last.op = "npy_load"
    /\ \A i \in 1..Len(hist) :
         /\ hist[i].memory_order = "C"
         /\ Len(hist[i].shape) = 3
         /\ hist[i].shape[2] = hist[1].shape[2]
         /\ hist[i].shape[3] = hist[1].shape[3] ) =>
    /\ last.threw = ""
    /\ arr.valid
    /\ arr.shape = <<SumFirstDims(1), hist[1].shape[2], hist[1].shape[3]>>
    /\ arr.data = Norm(SourcesFrom(1))

\* the dimensions an append must leave alone: all but the first under
\* RowMajor, all but the last under ColumnMajor
NonGrowthDims(memory_order, rank) ==
  IF memory_order = "C" THEN 2..rank ELSE 1..(rank - 1)

\* what the new data of an append differs in from the header h of the file
ValidationFails(h, T, shape, memory_order) ==
  \/ sizeof[T] # h.word_sizes[1]
  \/ map_type[T] # h.data_types[1]
  \/ memory_order # h.memory_order
  \/ Len(shape) # Len(h.shape)
  \/ \E k \in NonGrowthDims(h.memory_order, Len(h.shape)) : shape[k] # h.shape[k]

\* C3: on an existing file, npy_save in mode "a" throws and leaves every byte
\* of the file as it was whenever the new data's element width, type code,
\* memory order, rank or a non-growth dimension differs from the header's.
C3_FailedAppendLeavesFile ==
  PlainFile =>
    \A h \in {ExistingHeader(file)} :
      \A T \in ScalarTypes, shape \in Shapes, memory_order \in MemoryOrder :
        ValidationFails(h, T, shape, memory_order) =>
          LET r == npy_save(file, h, Len(hist) + 1, T, shape, "a", memory_order)
          IN  r.threw # "" /\ r.file = file

\* C4: under ColumnMajor order, npy_save in mode "a" accepts data of the
\* file's element type and rank exactly when every dimension but the last
\* equals the existing one, and then the stored last dimension is the sum of
\* the existing and the new one, the other dimensions being unchanged.
C4_FortranAppend ==
  PlainFile =>
    \A h \in {ExistingHeader(file)} :
      \A T \in ScalarTypes, shape \in Shapes :
        ( /\ h.memory_order = "Fortran"
          /\ sizeof[T] = h.word_sizes[1]
          /\ map_type[T] = h.data_types[1]
          /\ Len(shape) = Len(h.shape) ) =>
          LET r == npy_save(file, h, Len(hist) + 1, T, shape, "a", "Fortran")
              n == Len(shape)
          IN  /\ (r.threw = "") <=> (\A k \in 1..(n - 1) : shape[k] = h.shape[k])
              /\ (r.threw = "") =>
                   ExistingHeader(r.file).shape = [h.shape EXCEPT ![n] = @ + shape[n]]

\* the file holds the writes of the structured overload only, the first in
\* mode "w"
StructFile ==
  /\ file.exists
  /\ hist # <<>>
  /\ hist[1].mode = "w"
  /\ \A i \in 1..Len(hist) : hist[i].op = "npy_save_struct"

\* the bytes of a file after its header
PayloadOf(f) == FDrop(f.data, 10 + HeaderLen(FileHead(f)))

\* C11: on an existing structured file, the structured npy_save in mode "a"
\* of records of the file's field count, type codes and widths, under
\* RowMajor and with the file's non-growth dimensions, succeeds; afterwards
\* the header's first dimension is existing + new and the payload is the old
\* records followed by the new ones.
C11_StructAppend ==
  (StructFile /\ hist[1].memory_order = "C") =>
    \A h \in {ExistingHeader(file)} :
      \A shape \in Shapes :
        ( /\ Len(shape) = Len(h.shape)
          /\ \A k \in 2..Len(shape) : shape[k] = h.shape[k] ) =>
          LET w == Len(hist) + 1
              r == npy_save_struct(file, h, w, hist[1].labels, hist[1].types,
                                   shape, "a", "C")
              nbytes == nels_of(shape) * Sum(SizesOf(hist[1].types))
          IN  /\ r.threw = ""
              /\ ~r.ub
              /\ ExistingHeader(r.file).shape = [h.shape EXCEPT ![1] = @ + shape[1]]
              /\ PayloadOf(r.file) = Norm(PayloadOf(file) \o <<SrcChunk(w, 0, nbytes)>>)

\* payload offsets and lengths on both sides of the mapping alignment
MapOffsets == {0, 80, alignment - 1, alignment, alignment + 1, 2 * alignment + 80}
MapLengths == {0, 1, alignment - 1, alignment, alignment + 1}

WrittenWithW(wr) ==
  IF wr.op = "npy_save"
  THEN npy_save(NoFile, ExistingHeader(NoFile), 1, wr.types[1], wr.shape, "w",
                wr.memory_order)
  ELSE npy_save_struct(NoFile, ExistingHeader(NoFile), 1, wr.labels, wr.types,
                       wr.shape, "w", wr.memory_order)

\* C14: npy_save with mode "a" on a path that does not exist succeeds and
\* leaves the same bytes as the same call with mode "w", for both overloads.
C14_AppendCreates ==
  [][ (~file.exists /\ last'.mode = "a"
       /\ last'.op \in {"npy_save", "npy_save_struct"}) =>
        /\ last'.threw = ""
        /\ Len(hist') = 1
        /\ WrittenWithW(hist'[1]) = Saved(file')
    ]_vars

\* a structured array has been saved with mode "a" to a path that did not exist
C14_Witness ==
  /\ last.op = "npy_save_struct" /\ last.mode = "a" /\ last.threw = ""
  /\ Len(hist) = 1 /\ hist[1].mode = "a" /\ hist[1].memory_order = "Fortran"
  /\ file.exists /\ FLen(file.data) > 96

\* C17: npy_load of a file whose payload holds fewer bytes than product of
\* shape times sum of field widths fails with an error and returns no array.
C17_ShortPayloadFails ==
  (last.op = "npy_load" /\ file.exists) =>
    \A h \in {ExistingHeader(file)} :
      (h.throw = "" /\ FLen(PayloadOf(file)) < Sum(h.word_sizes) * Product(h.shape)) =>
        last.threw # "" /\ arr = NoArray

\* C23: an append never changes a payload byte the file already holds: the
\* header a successful mode "a" npy_save writes has the byte length of the
\* header it replaces, for every growth of the shape (9 -> 10 included), and
\* the bytes that followed the old header follow it unchanged.
C23_AppendKeepsPayload ==
  PlainFile =>
    \A h \in {ExistingHeader(file)} :
      \A T \in ScalarTypes, shape \in Shapes, memory_order \in MemoryOrder :
        \A r \in {npy_save(file, h, Len(hist) + 1, T, shape, "a", memory_order)} :
          r.threw = "" =>
            /\ HeaderLen(FileHead(r.file)) = HeaderLen(FileHead(file))
            /\ Norm(FTake(FDrop(r.file.data, 10 + HeaderLen(FileHead(file))),
                          FLen(PayloadOf(file))))
                 = Norm(PayloadOf(file))

\* C28: the plain npy_save in mode "a" is rejected when the file holds a
\* structured array of two or more fields, also when the width and the type
\* code of its first field are those of the new scalar data: a structured
\* header is never replaced by a header of a single field.
C28_PlainAppendOnStructRejected ==
  \A h \in {ExistingHeader(file)} :
    (file.exists /\ h.throw = "" /\ Len(h.word_sizes) >= 2) =>
      \A T \in ScalarTypes \cup FieldTypes, shape \in Shapes,
         memory_order \in MemoryOrder :
        \A r \in {npy_save(file, h, Len(hist) + 1, T, shape, "a", memory_order)} :
          /\ r.threw # ""
          /\ r.file = file

(***************************************************************************)
(* Claims on npz_save and npz_load (SpecArchive).                          *)
(***************************************************************************)
EntryNames(z) == {z.entries[i].name : i \in 1..Len(z.entries)}

\* the array a caller gets back from an entry written by the save s, the w-th
SavedArray(s, w) ==
  LET a == s.array
      word_sizes == IF a.kind = "plain" THEN <<sizeof[a.T]>> ELSE SizesOf(a.types)
      nbytes == nels_of(a.shape) * Sum(word_sizes)
  IN  NpyArray(a.shape, word_sizes, a.labels, a.memory_order,
               [k \in 1..nbytes |-> 256 + (k - 1) + 4096 * w])

\* C13: a successful npz_save of variable n in mode "a" leaves every other
\* entry of the archive in place, loadable as before, and makes n loadable
\* with the new data (replacing an older n); in mode "w" the archive holds
\* only n afterwards.
C13_NpzSaveModes ==
  [][ (zsaved' # zsaved /\ zres'.threw = "") =>
        LET n == zres'.fname \o npy_suffix
            w == Len(zsaved')
        IN  /\ npz_load_var(zip', zres'.fname, TRUE)
                 = ZLoaded({[name |-> zres'.fname,
                             array |-> SavedArray(zsaved'[w], w)]})
            /\ Cardinality({i \in 1..Len(zip'.entries) : zip'.entries[i].name = n}) = 1
            /\ zres'.mode = "w" => EntryNames(zip') = {n}
            /\ zres'.mode = "a" =>
                 /\ EntryNames(zip') = EntryNames(zip) \cup {n}
                 /\ \A i \in 1..Len(zip.entries) :
                      zip.entries[i].name # n =>
                        \E j \in 1..Len(zip'.entries) : zip'.entries[j] = zip.entries[i]
                 /\ \A v \in ZVarNames \ {zres'.fname} :
                      v \o npy_suffix \in EntryNames(zip) =>
                        npz_load_var(zip', v, TRUE) = npz_load_var(zip, v, TRUE)
    ]_vars

\* an append has replaced an older entry of the same name next to another entry
C13_Witness ==
  /\ zres.op = "npz_save" /\ zres.mode = "a" /\ zres.threw = ""
  /\ Len(zsaved) = 2 /\ zsaved[1].fname = zsaved[2].fname /\ zsaved[1].threw = ""
  /\ zsaved[1].array # zsaved[2].array
  /\ Len(zip.entries) = 2

ZLoads == {"npz_load", "npz_load_var"}

\* C15: every exit path of npz_load (both overloads) and of load_npy, the
\* throwing ones included, closes the archive and the entry file handle.
C15_HandlesClosed ==
  zres.op \in ZLoads => zopen = NoHandles

\* the names npz_load(fname) is to return: the ".npy" entries without suffix
StrippedNames(z) ==
  {SubSeq(n, 1, Len(n) - 4) :
     n \in {m \in EntryNames(z) :
              Len(m) >= 4 /\ SubSeq(m, Len(m) - 3, Len(m)) = npy_suffix}}

\* C16: npz_load of a whole archive whose ".npy" entries are NPY files skips
\* the entries not ending in ".npy" without failing, whatever the length of
\* their names, and returns the ".npy" entries under their names without suffix.
C16_SkipsOtherEntries ==
  (zres.op = "npz_load" /\ zip.exists
   /\ \A i \in 1..Len(zip.entries) : load_npy(zip.entries[i].data, zip.entries[i].comp_method).threw = ""
                                     \/ zip.entries[i].name \notin
                                          {n \o npy_suffix : n \in StrippedNames(zip)}) =>
    /\ zres.threw = ""
    /\ {a.name : a \in zres.arrays} = StrippedNames(zip)

\* the number of the last successful save of the variable `name`
LastSaveOf(name) ==
  CHOOSE w \in 1..Len(zsaved) :
    /\ zsaved[w].fname = name /\ zsaved[w].threw = ""
    /\ \A v \in (w + 1)..Len(zsaved) :
         ~(zsaved[v].fname = name /\ zsaved[v].threw = "")

\* C19: a structured array written with npz_save and read back with npz_load,
\* as the whole map or by name, has the saved shape, word sizes, labels,
\* memory order and payload.
C19_StructArchiveRoundTrip ==
  (zres.op \in ZLoads /\ zres.threw = "" /\ ~zres.ub) =>
    \A a \in zres.arrays :
      (a.name \in ZNames /\ zsaved[LastSaveOf(a.name)].array.kind = "struct") =>
        a.array = SavedArray(zsaved[LastSaveOf(a.name)], LastSaveOf(a.name))

(***************************************************************************)
(* Claims on load_npy (SpecEntry).                                         *)
(***************************************************************************)
\* C26: for an entry that holds a valid NPY file load_npy returns the same
\* payload, the bytes from the end of the header to the end of the entry,
\* on each of its three paths: the entry is no larger than the initial read
\* (a slice of header_buffer), it is larger and stored (seek, then read), it
\* is larger and compressed (reopen, read and drop the bytes in front, read).
C26_SamePayloadOnEveryPath ==
  zres.op = "load_npy" =>
    /\ zres.threw = ""
    /\ ~zres.ub
    /\ zopen = NoHandles
    /\ \A a \in zres.arrays :
         /\ a.array.valid
         /\ a.array.data = SubSeq(zip.entries[1].data,
                                  10 + HeaderLen(zip.entries[1].data) + 1,
                                  Len(zip.entries[1].data))
         /\ \A comp_method \in CompMethods :
              load_npy(zip.entries[1].data, comp_method).arr = a.array

\* a compressed entry larger than header_buffer has been loaded
C26_Witness ==
  /\ zres.op = "load_npy"
  /\ zres.threw = ""
  /\ Len(zip.entries[1].data) > max_header_size
  /\ zip.entries[1].comp_method = "ZIP_CM_DEFLATE"
  /\ \E a \in zres.arrays : Len(a.array.data) > max_header_size - 96

(***************************************************************************)
(* Claims on element counts (SpecCount).                                   *)
(***************************************************************************)
\* the exact product of the dimensions in twice the bytes of a size_t
RECURSIVE ExactProduct(_, _)
ExactProduct(shape, acc) ==
  IF shape = <<>> THEN acc
  ELSE ExactProduct(Tail(shape),
                    Multiply(acc, Bytes(shape[1], 3 * sizeof_size_t), 3 * sizeof_size_t))

FitsSizeT(x) == \A k \in (sizeof_size_t + 1)..Len(x) : x[k] = 0

\* C29: the number of payload elements npy_save and npz_save write is the
\* exact product of the dimensions of the shape whenever that fits in 64
\* bits, products of 2^31 and more included, and it is the count npy_load
\* computes from the header.
C29_ExactCount ==
  cfile # NoCount =>
    /\ FitsSizeT(ExactProduct(cfile.shape, Bytes(1, 3 * sizeof_size_t))) =>
         cfile.nels = SubSeq(ExactProduct(cfile.shape, Bytes(1, 3 * sizeof_size_t)),
                             1, sizeof_size_t)
    /\ cload # NoCount => cload.nels = cfile.nels

(***************************************************************************)
(* Claims on the zip source (SpecStream).                                  *)
(***************************************************************************)
IsPrefix(a, b) == Len(a) <= Len(b) /\ a = SubSeq(b, 1, Len(a))

\* C9: for every sequence of pull lengths, the bytes the ZIP_SOURCE_READ
\* calls return up to the first call that returns 0 are exactly the header
\* followed by all nels elements in source order: the reads never die, what
\* they have returned is at any time the beginning of the unchunked stream,
\* and it is the whole of it when a read returns 0.
C9_StreamEqualsUnchunked ==
  /\ sret.st # "crash"
  /\ IsPrefix(sout, Unchunked(scfg))
  /\ (sret.st = "ok" /\ sret.n = 0) => sout = Unchunked(scfg)

\* C22: in every ZIP_SOURCE_READ of length L made while header bytes remain
\* the callback copies exactly min(L, header bytes remaining) bytes, all of
\* them from inside the header, and header_bytes_remaining goes down by that
\* number: it is never below zero (never wrapped around) and it is 0 when
\* the reads have ended.
C22_HeaderCopy ==
  /\ sret.st # "crash"
  /\ sp.header_bytes_remaining >= 0
  /\ \A length \in PullLengths(sp.npyheader) :
       sp.header_bytes_remaining > 0 =>
         /\ Len(CopyHeader(sp, length).bytes) = Min(length, sp.header_bytes_remaining)
         /\ ~CopyHeader(sp, length).overread
         /\ CopyHeader(sp, length).parameters.header_bytes_remaining
              = sp.header_bytes_remaining - Min(length, sp.header_bytes_remaining)
  /\ (sret.st = "ok" /\ sret.n = 0) => sp.header_bytes_remaining = 0

\* C24: in every state of the streaming writer the side buffer holds
\* nothing or one whole element (buffer_size is 0 or the element size, and
\* bytes_buffer_written <= buffer_size); in the stream emitted so far every
\* header byte precedes every payload byte, and the payload bytes are in
\* source order without a gap, so that the bytes of an element that went
\* through the side buffer precede those of every later element; what is
\* left in the side buffer is the rest of the element that comes next.
C24_SideBuffer ==
  LET wordsize == sizeof[scfg.T]
      npyheader == sp.npyheader
      payload == {i \in 1..Len(sout) : sout[i] >= 256}
  IN
  /\ sp.buffer_size \in {0, wordsize}
  /\ sp.bytes_buffer_written \in 0..sp.buffer_size
  /\ payload # {} => IsPrefix(npyheader, sout)
  /\ \A i \in payload : sout[i] = 256 + (i - Len(npyheader) - 1)
  /\ sp.buffer_size # 0 =>
       /\ sp.buffer = ElementBytes(sit - 1, wordsize)
       /\ Len(sout) = Len(npyheader) + (sit - 1) * wordsize + sp.bytes_buffer_written

\* an element of two or more bytes is in the side buffer, partly sent
C24_Witness ==
  /\ sp.buffer_size = sizeof[scfg.T]
  /\ sp.bytes_buffer_written \in 1..(sp.buffer_size - 1)
  /\ sret.st = "ok"
  /\ sout[Len(sout)] = sp.buffer[sp.bytes_buffer_written]

\* C25: the lambda writes whole elements only into libzip's buffer, as many
\* as fit or remain; it is called only when the side buffer is empty, every
\* byte that was waiting there having been copied out in front of what it
\* writes; when space of less than one element is left after the whole
\* elements and elements remain, it puts exactly the next element into the
\* side buffer, and otherwise leaves the side buffer alone: no element is
\* split and no unsent byte of the side buffer is overwritten.
C25_WholeElements ==
  \A length \in PullLengths(sp.npyheader) :
    \A r \in {npzwrite_source_callback(sp, sit, length, scfg.nels, sizeof[scfg.T])} :
      r.func.called =>
        LET wordsize == sizeof[scfg.T]
            f == r.func
            c == r.func.result
            whole == r.func.result.n \div wordsize
            left == r.func.size - r.func.result.n
        IN  /\ f.parameters.buffer_size = 0
            /\ f.parameters.bytes_buffer_written = 0
            /\ r.bytes = CopyHeader(sp, length).bytes
                         \o SubSeq(sp.buffer, sp.bytes_buffer_written + 1, sp.buffer_size)
                         \o c.bytes
            /\ c.n = whole * wordsize
            /\ left >= 0
            /\ left < wordsize \/ f.it + whole = scfg.nels
            /\ c.bytes = Elements(f.it, whole, wordsize)
            /\ IF left > 0 /\ f.it + whole < scfg.nels
               THEN /\ c.it = f.it + whole + 1
                    /\ c.parameters =
                         [f.parameters EXCEPT !.buffer = ElementBytes(f.it + whole, wordsize),
                                              !.buffer_size = wordsize]
               ELSE /\ c.it = f.it + whole
                    /\ c.parameters = f.parameters

\* a read has just ended in which the lambda wrote a whole element and put
\* the next into the side buffer
C25_Witness ==
  /\ sret.st = "ok"
  /\ sret.n >= sizeof[scfg.T]
  /\ sout[Len(sout)] >= 256
  /\ sp.buffer_size = sizeof[scfg.T]
  /\ sp.bytes_buffer_written = 0
  /\ sizeof[scfg.T] > 1

\* C27: a ZIP_SOURCE_READ of length >= 1 returns 0 only when no header byte
\* remains, the side buffer is empty and all nels elements have been handed
\* out.
C27_ZeroOnlyAtEnd ==
  (sret.st = "ok" /\ sret.n = 0) =>
    /\ sp.header_bytes_remaining = 0
    /\ sp.buffer_size - sp.bytes_buffer_written = 0
    /\ sit = scfg.nels

\* C30: over every sequence of reads the source iterator advances at most
\* nels times, every read of length L returns at most L bytes, and the bytes
\* returned in total never exceed the header size + nels * element size.
C30_BoundedOutput ==
  /\ sit <= scfg.nels
  /\ \A length \in PullLengths(sp.npyheader) :
       /\ npzwrite_source_callback(sp, sit, length, scfg.nels,
                                   sizeof[scfg.T]).bytes_written <= length
       /\ npzwrite_source_callback(sp, sit, length, scfg.nels,
                                   sizeof[scfg.T]).it <= scfg.nels
  /\ Len(sout) <= Len(sp.npyheader) + scfg.nels * sizeof[scfg.T]

(***************************************************************************)
(* Claims on the record layout (SpecLayout).                               *)
(***************************************************************************)
\* C10: a record of widths {4,1,2} has offsets {0,4,5} and stride 7; for
\* every record type offsets[0] = 0, offsets[k] = offsets[k-1] + width[k-1]
\* and the stride is the sum of the widths; fill() has put field k of every
\* tuple written at offsets[k] of its record, and the tuple_iterator has taken
\* field k of every tuple it was dereferenced on from that address.
C10_RecordLayout ==
  LET offsets == calc_offsets(lsizes)
      stride == sum_size_impl(lsizes)
      n == Len(lsizes)
  IN
  lpc.at \in {"fill", "read"} =>
    /\ lsizes = <<4, 1, 2>> => (offsets = <<0, 4, 5>> /\ stride = 7)
    /\ offsets[1] = 0
    /\ \A k \in 2..n : offsets[k] = offsets[k - 1] + lsizes[k - 1]
    /\ stride = offsets[n] + lsizes[n]
    /\ \A t \in 0..(lpc.count - 1), k \in 1..n :
         SubSeq(lbuf, t * stride + offsets[k] + 1, t * stride + offsets[k] + lsizes[k])
           = SourceTuple(t, lsizes)[k]
    /\ \A i \in 1..Len(lread), k \in 1..n :
         lread[i][k] = (i - 1) * stride + offsets[k]

\* the record of widths {4,1,2}: two tuples filled and read back
C10_Witness ==
  /\ lsizes = <<4, 1, 2>>
  /\ lpc.at = "read"
  /\ lpc.count = 2
  /\ Len(lread) = 2

\* C21: column_range<T>(name) throws when name is not among the labels or
\* the stored width of that field is not sizeof(T); otherwise it yields
\* exactly num_vals values, the k-th at byte offset (sum of the widths of the
\* fields before it) + k * record stride of the array's bytes.  tuple_range
\* with force_check = true throws when the requested widths differ from the
\* stored ones.
C21_ColumnRange ==
  LET labels == FieldLabels(Len(lsizes))
      stride == sum_size_impl(lsizes)
  IN
  /\ lpc.at = "column" =>
       LET d == find(labels, lpc.name, 0) IN
       IF d = Len(labels) \/ lsizes[d + 1] # lpc.size
         THEN lpc.view.threw # ""
       ELSE /\ lpc.view.threw = ""
            /\ lpc.view.object = "data"
            /\ ViewAddresses(lpc.view) =
                 {calc_offsets(lsizes)[d + 1] + k * stride : k \in 0..(lpc.count - 1)}
  /\ (lpc.at = "tuple" /\ lpc.force_check /\ lpc.requested # lsizes) =>
       lpc.view.threw # ""


(***************************************************************************)
(* Claims on the header codec (SpecHeader).                                *)
(***************************************************************************)
\* the last position of the dictionary text proper: before the final
\* newline and the padding spaces
RECURSIVE LastTextPos(_, _)
LastTextPos(bytes, p) ==
  IF p > 10 /\ bytes[p] = Ch.space THEN LastTextPos(bytes, p - 1) ELSE p

\* C5: for every header made by either create_npy_header overload,
\* 10 + dictionary length is a multiple of 16, the 16-bit length field is
\* the dictionary length, and the last byte is '\n', on a padding byte: the
\* closing '}' is still the last character of the text before the padding.
C5_HeaderPadding ==
  (hpc \in {"made", "parsed"} /\ hforged = NotForged) =>
    /\ Len(hbytes) % 16 = 0
    /\ HeaderLen(hbytes) = Len(hbytes) - 10
    /\ hbytes[Len(hbytes)] = Ch.nl
    /\ hbytes[LastTextPos(hbytes, Len(hbytes) - 1)] = Ch.rbrace

\* a header whose unpadded length was already a multiple of 16: sixteen
\* padding bytes follow the closing brace
C5_Witness ==
  /\ hpc = "made"
  /\ hforged = NotForged
  /\ LastTextPos(hbytes, Len(hbytes) - 1) = Len(hbytes) - 16
  /\ hbytes[Len(hbytes) - 16] = Ch.rbrace

\* C6: parsing the bytes made by create_npy_header gives back the shape,
\* the memory order and, in order, the label, type code and byte width of
\* every field (no label for a single-field descriptor), whatever the
\* labels are.
C6_HeaderRoundTrip ==
  (hpc = "parsed" /\ hforged = NotForged) =>
    /\ hres.r.throw = ""
    /\ hres.r.shape = hin.shape
    /\ hres.r.memory_order = hin.memory_order
    /\ hres.r.labels = hin.labels
    /\ hres.r.data_types = DtypesOf(hin.types)
    /\ hres.r.word_sizes = SizesOf(hin.types)

\* C7: a header in which a descriptor carries '>' is rejected by the
\* parser, for a single-field descriptor and for any one tuple of a list.
C7_BigEndianRejected ==
  (hpc = "parsed" /\ hforged.what = "endian" /\ hforged.to = Ch.gt) =>
    hres.r.throw # ""

\* C8: both entry points fail when the first 6 bytes are not the magic
\* string or the version is not 1.0.
C8_BadPreambleRejected ==
  (hpc = "parsed" /\ hforged.what \in {"magic", "version"}) =>
    hres.r.throw # ""

\* C18: after every successful header parse the shape has rank >= 1; a
\* header whose shape tuple is empty, 'shape': (), is returned as the rank-1
\* shape of size 1.
C18_RankAtLeastOne ==
  (hpc = "parsed" /\ hres.r.throw = "") =>
    /\ Len(hres.r.shape) >= 1
    /\ hforged.what = "scalar" => hres.r.shape = <<1>>

(***************************************************************************)
(* Claims on the structured savers (SpecLabels).                           *)
(***************************************************************************)
\* what a structured save throws to on a wrong number of labels
NpyLabelsError == "number of labels does not match tuple size"
NpzLabelsError == "libcnpy++: number of labels does not match tuple size"

\* C20: the structured npy_save and npz_save throw when the number of labels
\* differs from the number of record fields, whatever the target is, and the
\* call that threw has left the target as it was: an existing file or archive
\* unchanged, a missing one still missing.
C20_LabelCountChecked ==
  /\ [](\A h \in {ExistingHeader(file)} :
        \A rec \in LabelRecords, shape \in LabelShapes, mode \in {"w", "a"},
           memory_order \in MemoryOrder :
          Len(rec.labels) # Len(rec.types) =>
            /\ npy_save_struct(file, h, Len(hist) + 1, rec.labels, rec.types,
                               shape, mode, memory_order)
                 = SaveThrew(NpyLabelsError, file)
            /\ \A fname \in LabelNames :
                 npz_save_struct(zip, Len(zsaved) + 1, fname, rec.labels,
                                 rec.types, shape, mode, memory_order)
                   = ZThrew(NpzLabelsError, zip))
  /\ [][ /\ (last' # last /\ last'.threw = NpyLabelsError) =>
              file' = file /\ hist' = hist
         /\ (zsaved' # zsaved /\ zres'.threw = NpzLabelsError) => zip' = zip
     ]_vars

\* both savers have rejected a label list on a target that exists
C20_Witness ==
  /\ last.op = "npy_save_struct" /\ last.threw = NpyLabelsError
  /\ file.exists /\ hist # <<>>
  /\ zres.op = "npz_save" /\ zres.threw = NpzLabelsError
  /\ zip.exists /\ zip.entries # <<>>
  /\ Len(zsaved) = 2 /\ zsaved[2].mode = "w"

====
